---- MODULE Spec2Model ----
(***************************************************************************)
(* The background task runner of the budget application                    *)
(* (src/src/background_tasks_fixed.py): the persisted background_tasks     *)
(* table, the mutex-guarded worker handle of BackgroundTaskManager, the    *)
(* execute_task calls in flight and the worker threads they spawn.         *)
(*                                                                         *)
(* Every block of code that runs under self._current_task_lock is one      *)
(* atomic action; every SQL statement a worker commits is one atomic       *)
(* action.  execute_task takes the lock twice (once inside                 *)
(* is_task_running, once to set the handle), so it is two actions; a worker *)
(* is still alive when its finally block has released the lock, so the     *)
(* end of the thread is an action of its own.                              *)
(***************************************************************************)
EXTENDS Integers, Sequences, FiniteSets, TLC

\* ---------------------------------------------------------------- bounds
\* Rows the table may hold (create_task calls); each row is handed to
\* execute_task by at most one caller, as the submit endpoint does.
MaxTasks == 2
\* Largest batch a payload sweeps (the total it reports to progress_callback).
MaxItems == 1
\* Last reading of the store's clock (NOW()).
MaxTime == 1

\* ---------------------------------------------------------------- values
\* Python None / SQL NULL of an optional value; Some(x) is a present value.
None == << >>
Some(x) == << x >>

\* SQL NULL in a text column.
SqlNull == "NULL"

\* The message _cleanup_stuck_tasks writes.
OrphanMessage == "Task thread died unexpectedly"

\* Values a payload may return: None, an empty dict, a dict of strings and
\* numbers, a dict that holds a value json cannot encode (a date, a Decimal).
PyNone == "None"
EmptyDict == "dict()"
StatsDict == "dict(message, result)"
DateDict == "dict(date)"
DefaultResult == "dict(message=Task completed successfully)"
PayloadResults == {PyNone, EmptyDict, StatsDict, DateDict}

\* str(e) of the exception a payload raises.
PayloadErrors == {"boom"}

\* total arguments of create_task (0 is the default).
Totals == {0, 1}

\* Python truthiness of the values above.
Truthy(v) == v \notin {PyNone, EmptyDict}

\* `v or {}`.
OrEmptyDict(v) == IF Truthy(v) THEN v ELSE EmptyDict

\* json.dumps raises TypeError on a value it cannot encode.
Serializable(v) == v # DateDict

\* str(e) of that TypeError.
JsonTypeError == "Object of type date is not JSON serializable"

\* json.dumps of a value it can encode: the JSON text.
DefaultResultJson == "{\"message\": \"Task completed successfully\"}"
json_dumps(v) ==
    CASE v = EmptyDict -> "{}"
      [] v = DefaultResult -> DefaultResultJson
      [] v = StatsDict -> "{\"message\": ..., \"result\": ...}"
      [] v = PyNone -> "null"

VARIABLES
    rows,      \* the background_tasks table: row id -> row (ids are 1..Len(rows))
    handle,    \* self._current_task_thread: None or Some(thread)
    threads,   \* the thread objects, named by their task: task id -> [pc, cur, n]
    calls,     \* task id -> the execute_task call for that task: "idle" (not made, or
               \* rejected), "checked" (past its check), "accepted" (worker spawned),
               \* "lost" (cut off by a restart)
    now,       \* the store's clock
    lastOp,    \* the last call made on the manager and the branch it took
    lock,      \* who holds self._current_task_lock across steps: "free" or "shutdown"
    shutdown_requested,  \* self._shutdown_requested
    prechecked,          \* submissions of the auto-classify endpoint that passed
                         \* their own is_task_running() test and have no row yet
    serving,             \* the tasks whose endpoint request has created the row
                         \* and not yet reached its execute_task call or answered
    app,                 \* the Flask app object: whether it has the attribute
                         \* task_manager_instance, and the managers that attribute
                         \* referred to before (handle and prechecked are those of
                         \* the manager it refers to now)
    cl         \* the classification call being evaluated (the classifier claims)

vars == << rows, handle, threads, calls, now, lastOp, lock, shutdown_requested,
           prechecked, serving, app, cl >>

\* What the manager's own calls and the worker leave alone.
web == << shutdown_requested, prechecked, serving, app, cl >>

TaskIds == 1 .. Len(rows)

\* A thread object that does not exist.
Unborn == [pc |-> "unborn", cur |-> 0, n |-> 0]

\* threading.Thread.is_alive(): started and not yet terminated.  A thread is
\* at "start", "payload" or "finally" inside task_runner's try statement, at
\* "exiting" once its finally block has released the lock, "dead" when it has
\* ended and "unstarted" when start() raised before the thread ever ran.
is_alive(thr, i) == thr[i].pc \in {"start", "payload", "finally", "exiting"}

\* The app object before get_background_task_manager has been called:
\* installed is hasattr(app, 'task_manager_instance'); entering counts the
\* calls of get_background_task_manager that found no attribute and have not
\* assigned it yet; old and pre are self._current_task_thread and the
\* prechecked requests of each manager the attribute referred to before, in
\* the order they were created; mgr is, for each row an endpoint request
\* created, the manager that request works with (0 when the process that held
\* it has ended).
AppNew == [installed |-> FALSE, entering |-> 0, old |-> << >>, pre |-> << >>,
           mgr |-> << >>]

\* The managers created since the process started are numbered in the order
\* of their assignment; the last one is app.task_manager_instance.
Current == Len(app.old) + 1
Managers == IF app.installed THEN 1 .. Current ELSE {}

\* The manager a task's request and worker thread hold (the `self` of
\* task_runner); a task that no endpoint request created is run on the
\* manager itself.
MgrOf(i) == IF i \in DOMAIN app.mgr /\ app.mgr[i] # 0 THEN app.mgr[i] ELSE Current

\* self._current_task_thread of manager m, and the handle and app.old after
\* manager m has set it to h.
HandleOf(m) == IF m = Current THEN handle ELSE app.old[m]
CurWith(m, h) == IF m = Current THEN h ELSE handle
OldWith(m, h) == IF m = Current THEN app.old ELSE [app.old EXCEPT ![m] = h]

\* The requests that passed their test on manager m and have no row yet.
PreOf(m) == IF m = Current THEN prechecked ELSE app.pre[m]

RECURSIVE SumSeq(_)
SumSeq(q) == IF q = << >> THEN 0 ELSE Head(q) + SumSeq(Tail(q))

\* A thread object that is not running and that no manager refers to any more
\* is collected; h is the handle of app.task_manager_instance (or of the one
\* manager there is), old the handles of the managers it replaced.
CollectFor(thr, h, old) ==
    [i \in DOMAIN thr |->
        IF /\ thr[i].pc \in {"dead", "unstarted"}
           /\ h # Some(i)
           /\ \A m \in DOMAIN old : old[m] # Some(i)
        THEN Unborn ELSE thr[i]]

Collect(thr, h) == CollectFor(thr, h, app.old)

\* ------------------------------------------------------- the task store
\* The columns the manager's statements read or that a statement sets from
\* another column: status, progress, total, result_data, error_message,
\* completed_at.  (task_type, task_name, user_id, current_item, created_at and
\* started_at are written and only ever read back by the projections.)
\*
\* INSERT INTO background_tasks ... VALUES (..., 'pending', total, ..., json.dumps(metadata or {}))
\* progress is not in the INSERT; it takes the column's default, 0.
NewRow(total, metadata) ==
    [status |-> "pending", progress |-> 0, total |-> total,
     result_data |-> json_dumps(OrEmptyDict(metadata)),
     error_message |-> SqlNull,
     completed_at |-> None]

\* UPDATE ... SET status = 'running', started_at = NOW() WHERE id = task_id
start_task(rs, task_id) ==
    [rs EXCEPT ![task_id].status = "running"]

\* UPDATE ... SET progress = %s, current_item = %s WHERE id = task_id
update_task_progress(rs, task_id, progress) ==
    [rs EXCEPT ![task_id].progress = progress]

\* UPDATE ... SET status = 'completed', completed_at = NOW(), progress = total,
\*                result_data = json.dumps(result_data or {}) WHERE id = task_id
complete_task(rs, task_id, result_data, t) ==
    [rs EXCEPT ![task_id].status = "completed",
               ![task_id].completed_at = Some(t),
               ![task_id].progress = rs[task_id].total,
               ![task_id].result_data = json_dumps(OrEmptyDict(result_data))]

\* fail_task without the error_message column in its SET list.
fail_task_silent(rs, task_id, error_message, t) ==
    [rs EXCEPT ![task_id].status = "failed",
               ![task_id].completed_at = Some(t)]

\* UPDATE ... SET status = 'failed', completed_at = NOW(), error_message = %s WHERE id = task_id
fail_task(rs, task_id, error_message, t) ==
    [rs EXCEPT ![task_id].status = "failed",
               ![task_id].completed_at = Some(t),
               ![task_id].error_message = error_message]

\* The sweep without its WHERE clause.
cleanup_every_task(rs, t) ==
    [id \in DOMAIN rs |->
        [rs[id] EXCEPT !.status = "failed",
                       !.error_message = OrphanMessage,
                       !.completed_at = Some(t)]]

\* The sweep with WHERE status IN ('running', 'failed').
cleanup_failed_again(rs, t) ==
    [id \in DOMAIN rs |->
        IF rs[id].status \in {"running", "failed"}
        THEN [rs[id] EXCEPT !.status = "failed",
                            !.error_message = OrphanMessage,
                            !.completed_at = Some(t)]
        ELSE rs[id]]

\* UPDATE ... SET status = 'failed', error_message = 'Task thread died unexpectedly',
\*                completed_at = NOW() WHERE status = 'running'
cleanup_stuck_tasks(rs, t) ==
    [id \in DOMAIN rs |->
        IF rs[id].status = "running"
        THEN [rs[id] EXCEPT !.status = "failed",
                            !.error_message = OrphanMessage,
                            !.completed_at = Some(t)]
        ELSE rs[id]]

\* progress_callback: int((current / total) * 100) if total > 0 else 0
\* (for 0 <= current <= total < 40 the float expression truncates to this quotient).
ProgressPercent(current, total) ==
    IF total > 0 THEN (current * 100) \div total ELSE 0

\* ---------------------------------------------------------- the manager
\* Which branch of is_task_running the state takes.
RunningBranch(h, thr) ==
    IF h # None /\ is_alive(thr, h[1]) THEN "alive"
    ELSE IF h # None THEN "dead"
    ELSE "none"

\* is_task_running's return value, and the handle and the rows it leaves.
RunningRet(h, thr) == RunningBranch(h, thr) = "alive"
RunningHandle(h, thr) == IF RunningBranch(h, thr) = "dead" THEN None ELSE h
RunningRows(rs, h, thr, t, updated) ==
    IF RunningBranch(h, thr) = "dead" /\ updated THEN cleanup_stuck_tasks(rs, t) ELSE rs

\* How the UPDATE of _cleanup_stuck_tasks may end when is_task_running is
\* called: it is executed only for a dead handle, and then it either succeeds
\* (TRUE) or raises, and `except Exception as e: self.logger.error(...)`
\* swallows the exception and leaves the rows as they were (FALSE).
SweepOutcomes(h, thr) == IF RunningBranch(h, thr) = "dead" THEN BOOLEAN ELSE {TRUE}

\* recover_system's handle: cleared when it refers to a dead thread.
RecoverHandle(h, thr) == IF h # None /\ ~is_alive(thr, h[1]) THEN None ELSE h

\* No worker thread is alive.
Quiet(thr) == \A i \in DOMAIN thr : ~is_alive(thr, i)

\* Some row is marked running.
AnyRunning(rs) == \E id \in DOMAIN rs : rs[id].status = "running"

\* lastOp after a call that is neither is_task_running nor recover_system.
Other == [name |-> "other", branch |-> "", ret |-> "", swept |-> FALSE]

\* No classification call.
NoCall == [op |-> "none"]

Init ==
    /\ rows = << >>
    /\ handle = None
    /\ threads = << >>
    /\ calls = << >>
    /\ now = 0
    /\ lastOp = Other
    /\ lock = "free"
    /\ shutdown_requested = FALSE
    /\ prechecked = 0
    /\ serving = {}
    /\ app = AppNew
    /\ cl = NoCall

\* create_task(task_type, task_name, user_id, total, metadata)
create_task ==
    /\ Len(rows) < MaxTasks
    /\ \E total \in Totals : rows' = Append(rows, NewRow(total, PyNone))
    /\ threads' = Append(threads, Unborn)
    /\ calls' = Append(calls, "idle")
    /\ lastOp' = Other
    /\ UNCHANGED << handle, now, lock, web >>

\* is_task_running(), called on its own; updated tells whether the UPDATE of
\* _cleanup_stuck_tasks succeeded.
is_task_running ==
    /\ lock = "free"
    /\ \E updated \in SweepOutcomes(handle, threads) :
          /\ rows' = RunningRows(rows, handle, threads, now, updated)
          /\ lastOp' = [name |-> "is_task_running",
                        branch |-> RunningBranch(handle, threads),
                        ret |-> IF RunningRet(handle, threads) THEN "True" ELSE "False",
                        swept |-> /\ RunningBranch(handle, threads) = "dead"
                                  /\ updated
                                  /\ AnyRunning(rows)]
    /\ handle' = RunningHandle(handle, threads)
    /\ threads' = Collect(threads, handle')
    /\ UNCHANGED << calls, now, lock, web >>

\* recover_system(); updated tells whether the UPDATE of _cleanup_stuck_tasks,
\* which is executed on every call, succeeded or raised and was swallowed.
recover_system ==
    /\ lock = "free"
    /\ handle' = RecoverHandle(handle, threads)
    /\ \E updated \in BOOLEAN :
          /\ rows' = IF updated THEN cleanup_stuck_tasks(rows, now) ELSE rows
          /\ lastOp' = [name |-> "recover_system",
                        branch |-> IF ~Quiet(threads) THEN "live"
                                   ELSE IF lastOp.name = "recover_system"
                                           /\ lastOp.branch # "live"
                                        THEN "again" ELSE "quiet",
                        ret |-> "",
                        swept |-> IF Quiet(threads) /\ lastOp.name = "recover_system"
                                                    /\ lastOp.branch # "live"
                                  THEN lastOp.swept \/ (updated /\ AnyRunning(rows))
                                  ELSE updated /\ AnyRunning(rows)]
    /\ threads' = Collect(threads, handle')
    /\ UNCHANGED << calls, now, lock, web >>

\* execute_task, first half: `if self.is_task_running(): raise Exception(...)`.
\* The lock is released when is_task_running returns.
execute_task_check ==
    \E task_id \in TaskIds, updated \in SweepOutcomes(handle, threads) :
        /\ calls[task_id] = "idle"
        /\ lock = "free"
        /\ handle' = RunningHandle(handle, threads)
        /\ rows' = RunningRows(rows, handle, threads, now, updated)
        /\ threads' = Collect(threads, handle')
        /\ calls' = IF RunningRet(handle, threads) THEN calls
                    ELSE [calls EXCEPT ![task_id] = "checked"]
        /\ lastOp' = Other
        /\ UNCHANGED << now, lock, web >>

\* lastOp after an execute_task call whose Thread.start() raised.
StartRaised == [name |-> "execute_task", branch |-> "start", ret |-> "RuntimeError",
                swept |-> FALSE]

\* execute_task, second half: under the lock, create the thread, store it in
\* the handle and start it.  The handle is assigned before start() is called:
\* when start() raises RuntimeError ("can't start new thread") the handle
\* keeps the thread that never ran and the exception reaches the caller.
execute_task_spawn ==
    \E task_id \in TaskIds, started \in BOOLEAN :
        /\ calls[task_id] = "checked"
        /\ lock = "free"
        /\ handle' = CurWith(MgrOf(task_id), Some(task_id))
        /\ app' = [app EXCEPT !.old = OldWith(MgrOf(task_id), Some(task_id))]
        /\ threads' = CollectFor([threads EXCEPT ![task_id] =
                                     [pc |-> IF started THEN "start" ELSE "unstarted",
                                      cur |-> 0, n |-> 0]],
                                 handle', app'.old)
        /\ calls' = [calls EXCEPT ![task_id] = IF started THEN "accepted" ELSE "idle"]
        /\ lastOp' = IF started THEN Other ELSE StartRaised
        /\ UNCHANGED << rows, now, lock, shutdown_requested, prechecked, serving, cl >>

\* ------------------------------------------------------------ the worker
\* task_runner: self.start_task(task_id); the payload then fetches its batch.
worker_start(i) ==
    /\ threads[i].pc = "start"
    /\ rows' = start_task(rows, i)
    /\ \E n \in 0 .. MaxItems :
          threads' = [threads EXCEPT ![i].pc = "payload", ![i].n = n]
    /\ UNCHANGED << handle, calls, now, lastOp, lock, web >>

\* The payload calls progress_callback(current, total, current_item) after an item.
worker_progress(i) ==
    /\ threads[i].pc = "payload"
    /\ threads[i].cur < threads[i].n
    /\ rows' = update_task_progress(rows, i,
                  ProgressPercent(threads[i].cur + 1, threads[i].n))
    /\ threads' = [threads EXCEPT ![i].cur = @ + 1]
    /\ UNCHANGED << handle, calls, now, lastOp, lock, web >>

\* What task_runner hands to complete_task: the payload's result, or the
\* default message when the payload returned None.
RunnerResult(result) == IF result = PyNone THEN DefaultResult ELSE result

\* The payload returns: self.complete_task(task_id, result).  When json.dumps
\* raises inside complete_task, no UPDATE is sent, the exception reaches
\* task_runner's except branch and the row is failed with str(e).
worker_complete(i, result) ==
    /\ threads[i].pc = "payload"
    /\ threads[i].cur = threads[i].n
    /\ rows' = IF Serializable(OrEmptyDict(RunnerResult(result)))
               THEN complete_task(rows, i, RunnerResult(result), now)
               ELSE fail_task(rows, i, JsonTypeError, now)
    /\ threads' = [threads EXCEPT ![i].pc = "finally"]
    /\ UNCHANGED << handle, calls, now, lastOp, lock, web >>

\* The payload raises: self.fail_task(task_id, str(e)).
worker_fail(i, msg) ==
    /\ threads[i].pc = "payload"
    /\ rows' = fail_task(rows, i, msg, now)
    /\ threads' = [threads EXCEPT ![i].pc = "finally"]
    /\ UNCHANGED << handle, calls, now, lastOp, lock, web >>

\* The payload raises a BaseException that is not an Exception (SystemExit,
\* KeyboardInterrupt): `except Exception` does not catch it, no UPDATE is
\* sent, the finally block runs and the exception ends the thread.
worker_abort(i) ==
    /\ threads[i].pc = "payload"
    /\ threads' = [threads EXCEPT ![i].pc = "finally"]
    /\ UNCHANGED << rows, handle, calls, now, lastOp, lock, web >>

\* A finally block that clears the handle whatever it refers to.
FinallyClear(h, i) == None

\* finally: `if self._current_task_thread and self._current_task_thread ==
\* threading.current_thread(): self._current_task_thread = None`.
FinallyHandle(h, i) == IF h = Some(i) THEN None ELSE h

\* finally: under the lock, clear the handle if it is this thread.  The lock
\* is released with the thread still running: it has its last log line to write.
worker_finally(i) ==
    /\ threads[i].pc = "finally"
    /\ lock = "free"
    /\ handle' = CurWith(MgrOf(i), FinallyHandle(HandleOf(MgrOf(i)), i))
    /\ app' = [app EXCEPT !.old = OldWith(MgrOf(i), FinallyHandle(HandleOf(MgrOf(i)), i))]
    /\ threads' = [threads EXCEPT ![i].pc = "exiting"]
    /\ UNCHANGED << rows, calls, now, lastOp, lock, shutdown_requested, prechecked,
                    serving, cl >>

\* task_runner returns (or the exception it did not catch leaves it) and the
\* thread ends.
worker_return(i) ==
    /\ threads[i].pc = "exiting"
    /\ threads' = Collect([threads EXCEPT ![i].pc = "dead"], handle)
    /\ UNCHANGED << rows, handle, calls, now, lastOp, lock, web >>

\* ------------------------------------------------------- the environment
\* A worker thread dies without running its finally block.
thread_dies(i) ==
    /\ is_alive(threads, i)
    /\ threads' = Collect([threads EXCEPT ![i].pc = "dead"], handle)
    /\ UNCHANGED << rows, handle, calls, now, lastOp, lock, web >>

\* The process crashes and is started again: BackgroundTaskManager.__init__
\* on the table the old process left.
process_restart ==
    /\ handle' = None
    /\ threads' = [i \in DOMAIN threads |-> Unborn]
    /\ calls' = [i \in DOMAIN calls |-> IF calls[i] = "checked" THEN "lost" ELSE calls[i]]
    /\ lastOp' = Other
    /\ lock' = "free"
    /\ shutdown_requested' = FALSE
    /\ prechecked' = 0
    /\ serving' = {}
    /\ app' = [AppNew EXCEPT !.mgr = [i \in DOMAIN app.mgr |-> 0]]
    /\ UNCHANGED << rows, now, cl >>

\* The store's clock advances.
tick ==
    /\ now < MaxTime
    /\ now' = now + 1
    /\ UNCHANGED << rows, handle, threads, calls, lastOp, lock, web >>

WorkerStart == \E i \in TaskIds : worker_start(i)
WorkerProgress == \E i \in TaskIds : worker_progress(i)
WorkerComplete == \E i \in TaskIds, result \in PayloadResults : worker_complete(i, result)
WorkerFail == \E i \in TaskIds, msg \in PayloadErrors : worker_fail(i, msg)
WorkerAbort == \E i \in TaskIds : worker_abort(i)
WorkerFinally == \E i \in TaskIds : worker_finally(i)
WorkerReturn == \E i \in TaskIds : worker_return(i)
ThreadDies == \E i \in TaskIds : thread_dies(i)

Next ==
    \/ create_task
    \/ is_task_running
    \/ recover_system
    \/ execute_task_check
    \/ execute_task_spawn
    \/ WorkerStart
    \/ WorkerProgress
    \/ WorkerComplete
    \/ WorkerFail
    \/ WorkerAbort
    \/ WorkerFinally
    \/ WorkerReturn
    \/ ThreadDies
    \/ process_restart
    \/ tick

Spec == Init /\ [][Next]_vars

\* The manager while no thread is killed and the process keeps running.
NextNoCrash ==
    \/ create_task
    \/ is_task_running
    \/ recover_system
    \/ execute_task_check
    \/ execute_task_spawn
    \/ WorkerStart
    \/ WorkerProgress
    \/ WorkerComplete
    \/ WorkerFail
    \/ WorkerAbort
    \/ WorkerFinally
    \/ WorkerReturn
    \/ tick

SpecNoCrash == Init /\ [][NextNoCrash]_vars

\* --------------------------------------------------- store-write failures
\* str(e) of the exception a failed UPDATE raises.
StoreError == "connection already closed"

\* lastOp after a worker step in which an UPDATE raised.
StoreFault(branch) == [name |-> "store_fault", branch |-> branch, ret |-> "", swept |-> FALSE]

\* What task_runner's `except` branch leaves after a store write raised:
\* fail_task(task_id, str(e)) either writes the row or raises as well.
ExceptRows(rs, task_id, t, recovered) ==
    IF recovered THEN fail_task(rs, task_id, StoreError, t) ELSE rs

\* start_task's UPDATE raises; start_task logs and re-raises.
worker_start_fault(i, recovered) ==
    /\ threads[i].pc = "start"
    /\ rows' = ExceptRows(rows, i, now, recovered)
    /\ threads' = [threads EXCEPT ![i].pc = "finally"]
    /\ lastOp' = StoreFault("start_task")
    /\ UNCHANGED << handle, calls, now, lock, web >>

\* update_task_progress's UPDATE raises; the method logs and returns.
worker_progress_fault(i) ==
    /\ threads[i].pc = "payload"
    /\ threads[i].cur < threads[i].n
    /\ threads' = [threads EXCEPT ![i].cur = @ + 1]
    /\ lastOp' = StoreFault("update_task_progress")
    /\ UNCHANGED << rows, handle, calls, now, lock, web >>

\* complete_task's UPDATE raises; complete_task logs and re-raises.
worker_complete_fault(i, recovered) ==
    /\ threads[i].pc = "payload"
    /\ threads[i].cur = threads[i].n
    /\ rows' = ExceptRows(rows, i, now, recovered)
    /\ threads' = [threads EXCEPT ![i].pc = "finally"]
    /\ lastOp' = StoreFault("complete_task")
    /\ UNCHANGED << handle, calls, now, lock, web >>

\* The payload raises and fail_task's UPDATE raises too: the exception leaves
\* the except branch, finally still runs.
worker_fail_fault(i) ==
    /\ threads[i].pc = "payload"
    /\ threads' = [threads EXCEPT ![i].pc = "finally"]
    /\ lastOp' = StoreFault("fail_task")
    /\ UNCHANGED << rows, handle, calls, now, lock, web >>

WorkerStartFault == \E i \in TaskIds, recovered \in BOOLEAN : worker_start_fault(i, recovered)
WorkerProgressFault == \E i \in TaskIds : worker_progress_fault(i)
WorkerCompleteFault == \E i \in TaskIds, recovered \in BOOLEAN : worker_complete_fault(i, recovered)
WorkerFailFault == \E i \in TaskIds : worker_fail_fault(i)

\* The manager on a store where the writes of the worker may fail as well as
\* the sweep's.
NextStoreFault ==
    \/ Next
    \/ WorkerStartFault
    \/ WorkerProgressFault
    \/ WorkerCompleteFault
    \/ WorkerFailFault

SpecStoreFault == Init /\ [][NextStoreFault]_vars

\* The manager on a store where the writes of the worker may fail as well as
\* the sweep's, while no thread is killed and the process keeps running:
\* every payload returns or raises.
NextStoreFaultNoCrash ==
    \/ NextNoCrash
    \/ WorkerStartFault
    \/ WorkerProgressFault
    \/ WorkerCompleteFault
    \/ WorkerFailFault

\* One step of the worker thread of task i (task_runner and the payload it
\* runs), whichever way its store writes turn out.
task_runner(i) ==
    /\ i \in TaskIds
    /\ \/ worker_start(i)
       \/ worker_progress(i)
       \/ \E result \in PayloadResults : worker_complete(i, result)
       \/ \E msg \in PayloadErrors : worker_fail(i, msg)
       \/ \E recovered \in BOOLEAN : worker_start_fault(i, recovered)
       \/ worker_progress_fault(i)
       \/ \E recovered \in BOOLEAN : worker_complete_fault(i, recovered)
       \/ worker_fail_fault(i)
       \/ worker_abort(i)
       \/ worker_finally(i)
       \/ worker_return(i)

\* A started thread keeps being scheduled (threading.Thread.start()); calls
\* made on the manager from outside (is_task_running, recover_system,
\* execute_task) are not owed to anybody.
FairWorkers == \A i \in 1 .. MaxTasks : WF_vars(task_runner(i))

SpecStoreFaultFair == Init /\ [][NextStoreFaultNoCrash]_vars /\ FairWorkers

\* The same schedule on a store whose writes all succeed.
SpecFair == Init /\ [][NextNoCrash]_vars /\ FairWorkers

\* ---------------------------------------------------------------- shutdown
\* shutdown(): set the flag, take the lock and, when the handle's thread is
\* alive, call join(timeout=30.0) on it with the lock still held.
shutdown_begin ==
    /\ lock = "free"
    /\ shutdown_requested' = TRUE
    /\ lock' = IF RunningRet(handle, threads) THEN "shutdown" ELSE "free"
    /\ lastOp' = Other
    /\ UNCHANGED << rows, handle, threads, calls, now, prechecked, serving, app, cl >>

\* join returns, because the thread ended or the 30 seconds passed, and the
\* `with` block releases the lock.
shutdown_return ==
    /\ lock = "shutdown"
    /\ lock' = "free"
    /\ UNCHANGED << rows, handle, threads, calls, now, lastOp, web >>

NextShutdown ==
    \/ Next
    \/ shutdown_begin
    \/ shutdown_return

SpecShutdown == Init /\ [][NextShutdown]_vars

\* ------------------------------- the endpoint (api_start_auto_classify_task)
\* The handler's response, kept in lastOp.ret: "409" and "400" are its two
\* early returns, "500" its `except Exception` branch.
Submit(branch, ret) == [name |-> "submit", branch |-> branch, ret |-> ret, swept |-> FALSE]

\* What get_background_task_manager leaves in lastOp.
GetManager(branch, ret) ==
    [name |-> "get_background_task_manager", branch |-> branch, ret |-> ret,
     swept |-> FALSE]

\* Requests that may be between the test and the assignment of
\* get_background_task_manager at one time.
MaxEntering == 2

\* get_background_task_manager, called first by every handler that uses the
\* manager: `if not hasattr(app, 'task_manager_instance')` finds no attribute.
\* No lock is held: other requests can make the same test before this one
\* assigns.  (A call that finds the attribute returns it and changes nothing.)
get_manager_enter ==
    /\ ~app.installed
    /\ app.entering < MaxEntering
    /\ app' = [app EXCEPT !.entering = @ + 1]
    /\ UNCHANGED << rows, handle, threads, calls, now, lastOp, lock,
                    shutdown_requested, prechecked, serving, cl >>

\* `logic = get_logic()`, which raises DatabaseError when it cannot connect,
\* then `app.task_manager_instance = BackgroundTaskManager(logic.db)`: a new
\* manager on the same store, with no thread in its handle and a lock of its
\* own, whether or not another request has assigned one in between.  The
\* manager that was there stays with the requests and the worker thread that
\* hold it.
get_manager_assign ==
    /\ app.entering > 0
    /\ \E connected \in BOOLEAN :
          IF connected
          THEN /\ app' = [app EXCEPT !.entering = @ - 1,
                                     !.installed = TRUE,
                                     !.old = IF app.installed THEN Append(@, handle) ELSE @,
                                     !.pre = IF app.installed THEN Append(@, prechecked)
                                             ELSE @]
               /\ handle' = None
               /\ prechecked' = 0
               /\ lock' = "free"
               /\ shutdown_requested' = FALSE
               /\ lastOp' = GetManager("assign", "")
          ELSE /\ app' = [app EXCEPT !.entering = @ - 1]
               /\ lastOp' = GetManager("raise", "DatabaseError")
               /\ UNCHANGED << handle, prechecked, lock, shutdown_requested >>
    /\ UNCHANGED << rows, threads, calls, now, serving, cl >>

\* `task_manager = get_background_task_manager()` has returned manager m, the
\* one app.task_manager_instance referred to at that moment; then
\* `if task_manager.is_task_running(): return ... 409`, then
\* `total_count = logic.get_uncategorized_count()`, 400 when it is 0.
submit_precheck ==
    /\ lock = "free"
    /\ prechecked + SumSeq(app.pre) + Len(rows) < MaxTasks
    /\ \E m \in Managers, total_count \in Totals :
          LET h == HandleOf(m)
              passed == ~RunningRet(h, threads) /\ total_count # 0
          IN /\ \E updated \in SweepOutcomes(h, threads) :
                   rows' = RunningRows(rows, h, threads, now, updated)
             /\ handle' = CurWith(m, RunningHandle(h, threads))
             /\ app' = [app EXCEPT !.old = OldWith(m, RunningHandle(h, threads)),
                                   !.pre = IF m # Current /\ passed
                                           THEN [@ EXCEPT ![m] = @ + 1] ELSE @]
             /\ threads' = CollectFor(threads, handle', app'.old)
             /\ lastOp' = Submit(RunningBranch(h, threads),
                                 IF RunningRet(h, threads) THEN "409"
                                 ELSE IF total_count = 0 THEN "400" ELSE "")
             /\ prechecked' = IF m = Current /\ passed THEN prechecked + 1
                              ELSE prechecked
    /\ UNCHANGED << calls, now, lock, shutdown_requested, serving, cl >>

\* `task_id = task_manager.create_task(..., total=total_count)`
submit_create ==
    /\ \E m \in Managers :
          /\ PreOf(m) > 0
          /\ prechecked' = IF m = Current THEN prechecked - 1 ELSE prechecked
          /\ app' = [app EXCEPT !.pre = IF m = Current THEN @
                                        ELSE [@ EXCEPT ![m] = @ - 1],
                                !.mgr = Append(@, m)]
    /\ \E total \in Totals \ {0} : rows' = Append(rows, NewRow(total, PyNone))
    /\ threads' = Append(threads, Unborn)
    /\ calls' = Append(calls, "submitted")
    /\ serving' = serving \cup {Len(rows) + 1}
    /\ lastOp' = Other
    /\ UNCHANGED << handle, now, lock, shutdown_requested, cl >>

\* What the request carries for confidence_threshold: no such key (the default
\* 0.7 is taken), a number, a string that is no number, null, or no JSON body
\* at all (request.json is None).
ThresholdBodies == {"absent", "0.7", "abc", "null", "no json"}

\* `float(request.json.get('confidence_threshold', 0.7))` raises ValueError on
\* "abc", TypeError on null and AttributeError when request.json is None.
ThresholdRaises(body) == body \in {"abc", "null", "no json"}

\* `confidence_threshold = float(request.json.get('confidence_threshold', 0.7))`
\* and `task_manager.execute_task(task_id, auto_task.run, confidence_threshold)`,
\* first half.  An exception of the float conversion, and execute_task's
\* `raise Exception("Another task is already running")`, land in the handler's
\* `except Exception`, which answers 500 with str(e); when the conversion
\* raises, execute_task is not called.
submit_execute ==
    \E task_id \in serving, body \in ThresholdBodies :
        /\ calls[task_id] = "submitted"
        /\ lock = "free"
        /\ serving' = serving \ {task_id}
        /\ IF ThresholdRaises(body)
           THEN /\ lastOp' = Submit("float", "500")
                /\ UNCHANGED << rows, handle, threads, calls, app >>
           ELSE LET m == MgrOf(task_id)
                    h == HandleOf(m)
                IN /\ handle' = CurWith(m, RunningHandle(h, threads))
                   /\ app' = [app EXCEPT !.old = OldWith(m, RunningHandle(h, threads))]
                   /\ \E updated \in SweepOutcomes(h, threads) :
                         rows' = RunningRows(rows, h, threads, now, updated)
                   /\ threads' = CollectFor(threads, handle', app'.old)
                   /\ calls' = [calls EXCEPT ![task_id] =
                                   IF RunningRet(h, threads) THEN "rejected" ELSE "checked"]
                   /\ lastOp' = Submit(RunningBranch(h, threads),
                                       IF RunningRet(h, threads) THEN "500" ELSE "")
        /\ UNCHANGED << now, lock, shutdown_requested, prechecked, cl >>

\* The manager driven by the endpoint alone.
NextSubmit ==
    \/ get_manager_enter
    \/ get_manager_assign
    \/ submit_precheck
    \/ submit_create
    \/ submit_execute
    \/ execute_task_spawn
    \/ WorkerStart
    \/ WorkerProgress
    \/ WorkerComplete
    \/ WorkerFail
    \/ WorkerAbort
    \/ WorkerFinally
    \/ WorkerReturn
    \/ ThreadDies
    \/ process_restart
    \/ tick

SpecSubmit == Init /\ [][NextSubmit]_vars


\* ------------------------------------------------- the classification engine
\* Confidences are written in hundredths: 0.4 is 40, 0.95 is 95.
\* classify_transaction: min_confidence of the two kinds of classifier.
LlmMinConfidence == 40
TraditionalMinConfidence == 60

\* (None, 0.0), the result of a strategy that has nothing to propose.
NoneResult == [category |-> PyNone, confidence |-> 0]

\* A strategy call that raises instead of returning.
RaisedResult == [category |-> "<raise>", confidence |-> 0]

\* `if category`: None and the empty string are false.
CategoryTruthy(category) == category \notin {PyNone, ""}

\* The class names classify_transaction treats as LLM classifiers.
LlmClassifierNames == {"SuperFastClassifier", "DockerLLMClassifier", "FastLLMClassifier"}

SuggestionType(classifier_name) ==
    IF classifier_name \in LlmClassifierNames THEN "llm" ELSE "traditional"

MinConfidence(classifier_name) ==
    IF classifier_name \in LlmClassifierNames THEN LlmMinConfidence
    ELSE TraditionalMinConfidence

\* `if category and confidence > min_confidence`
Admitted(classifier_name, result) ==
    CategoryTruthy(result.category) /\ result.confidence > MinConfidence(classifier_name)

MakeSuggestion(classifier_name, result) ==
    [category |-> result.category, confidence |-> result.confidence,
     classifier |-> classifier_name, type |-> SuggestionType(classifier_name)]

\* self.classifiers: LLM_PRIORITY true puts the LLM classifiers first.
LlmFirstClassifiers ==
    << "SuperFastClassifier", "DockerLLMClassifier", "RuleBasedClassifier", "LearningClassifier" >>
TraditionalFirstClassifiers ==
    << "RuleBasedClassifier", "LearningClassifier", "SuperFastClassifier", "DockerLLMClassifier" >>

\* The admitted suggestions of one kind, in classifier order.
RECURSIVE AdmittedOfType(_, _, _, _)
AdmittedOfType(classifiers, results, type, k) ==
    IF k > Len(classifiers) THEN << >>
    ELSE IF Admitted(classifiers[k], results[k]) /\ SuggestionType(classifiers[k]) = type
         THEN << MakeSuggestion(classifiers[k], results[k]) >>
              \o AdmittedOfType(classifiers, results, type, k + 1)
         ELSE AdmittedOfType(classifiers, results, type, k + 1)

\* list.sort(key=confidence, reverse=True): stable, equal confidences keep
\* their order.
RECURSIVE InsertByConfidence(_, _)
InsertByConfidence(x, sorted) ==
    IF sorted = << >> THEN << x >>
    ELSE IF Head(sorted).confidence >= x.confidence
         THEN << Head(sorted) >> \o InsertByConfidence(x, Tail(sorted))
         ELSE << x >> \o sorted

\* A sort that leaves the list as it found it.
KeepOrder(seq) == seq

RECURSIVE SortByConfidence(_)
SortByConfidence(seq) ==
    IF seq = << >> THEN << >>
    ELSE InsertByConfidence(seq[Len(seq)], SortByConfidence(SubSeq(seq, 1, Len(seq) - 1)))

\* A list that puts the traditional suggestions before the LLM ones.
TraditionalBeforeLlm(llm_suggestions, traditional_suggestions) ==
    traditional_suggestions \o llm_suggestions

\* suggestions = llm_suggestions + traditional_suggestions
Prioritize(llm_suggestions, traditional_suggestions) ==
    llm_suggestions \o traditional_suggestions

\* The duplicate filter: keep the first suggestion of each category.
RECURSIVE UniqueSuggestions(_, _)
UniqueSuggestions(suggestions, seen_categories) ==
    IF suggestions = << >> THEN << >>
    ELSE IF Head(suggestions).category \notin seen_categories
         THEN << Head(suggestions) >>
              \o UniqueSuggestions(Tail(suggestions),
                                   seen_categories \cup {Head(suggestions).category})
         ELSE UniqueSuggestions(Tail(suggestions), seen_categories)

\* classify_transaction(transaction_data), given what each classifier's
\* classify returns for the transaction.  An exception raised by a classifier
\* is not caught here.
classify_transaction(classifiers, results) ==
    IF \E k \in DOMAIN results : results[k] = RaisedResult
    THEN [raised |-> TRUE, suggestions |-> << >>]
    ELSE [raised |-> FALSE,
          suggestions |->
              UniqueSuggestions(
                  Prioritize(SortByConfidence(AdmittedOfType(classifiers, results, "llm", 1)),
                             SortByConfidence(AdmittedOfType(classifiers, results, "traditional", 1))),
                  {})]

\* Results the classifiers are given in the check of classify_transaction.
EngineCategories == {"Mat", "Transport"}
EngineConfidences == {40, 50, 60, 70, 90}
EngineResults ==
    {NoneResult, [category |-> "", confidence |-> 90]}
    \cup {[category |-> c, confidence |-> x] : c \in EngineCategories, x \in EngineConfidences}

\* One call of classify_transaction.
classify_transaction_call ==
    /\ cl = NoCall
    /\ \E classifiers \in {LlmFirstClassifiers, TraditionalFirstClassifiers},
          r1 \in EngineResults, r2 \in EngineResults,
          r3 \in EngineResults, r4 \in EngineResults :
          cl' = [op |-> "classify_transaction",
                 classifiers |-> classifiers,
                 results |-> << r1, r2, r3, r4 >>,
                 out |-> classify_transaction(classifiers, << r1, r2, r3, r4 >>)]
    /\ UNCHANGED << rows, handle, threads, calls, now, lastOp, lock,
                    shutdown_requested, prechecked, serving, app >>


\* ------------------------------------------------ auto_classify_uncategorized
\* `elif best_suggestion['confidence'] >= 0.4`
ReviewMinConfidence == 40

\* `suggestions[:3]`
ReviewSuggestions == 3

\* classifier_to_method.get(best_suggestion.get('classifier'), 'auto')
ClassifierToMethod(classifier_name) ==
    CASE classifier_name = "SuperFastClassifier" -> "hybrid-llm"
      [] classifier_name = "DockerLLMClassifier" -> "docker-llm"
      [] classifier_name = "FastLLMClassifier" -> "fast-llm"
      [] classifier_name = "RuleBasedClassifier" -> "rules"
      [] classifier_name = "LearningClassifier" -> "learning"
      [] OTHER -> "auto"

\* A review entry that carries every suggestion.
AllSuggestions(suggestions) == suggestions

\* suggestions[:3]
TopSuggestions(suggestions) ==
    SubSeq(suggestions, 1,
           IF Len(suggestions) < ReviewSuggestions THEN Len(suggestions) ELSE ReviewSuggestions)

\* The sweep's local variables when it starts on a batch of n records.
\* caller, submitted, progress_callback and progress_calls belong to the job
\* that runs the sweep: who called, the confidence_threshold handed to that
\* caller, whether a progress_callback was handed over, and the calls that
\* callback has received.  The engine's sweep has no progress_callback
\* parameter and its loop calls nothing but classify_transaction,
\* reclassify_transaction and the logger.
SweepStart(confidence_threshold, n) ==
    [op |-> "sweep", confidence_threshold |-> confidence_threshold, n |-> n, i |-> 0,
     classified_count |-> 0, suggestions_for_review |-> << >>, written |-> << >>,
     status |-> "running", trail |-> << >>,
     caller |-> "direct", submitted |-> confidence_threshold,
     progress_callback |-> FALSE, progress_calls |-> << >>]

\* The record is applied: its top suggestion meets the threshold.
Applies(c, suggestions) ==
    suggestions # << >> /\ suggestions[1].confidence >= c.confidence_threshold

\* A sweep that lets the exception of reclassify_transaction escape.
WriteRaisedAborts(seen) == [seen EXCEPT !.status = "raised"]

\* `except Exception as e: self.logger.error(...)`: the record is left as it
\* was and the loop goes on.
WriteRaised(seen) == seen

\* One pass of the `for tx in uncategorized` loop: results are what the
\* classifiers return for the record, write_ok whether reclassify_transaction
\* returns or raises.
SweepStep(c, results, write_ok) ==
    LET tx_id == c.i + 1
        classified == classify_transaction(LlmFirstClassifiers, results)
        suggestions == classified.suggestions
        seen == [c EXCEPT !.i = tx_id,
                          !.trail = Append(@, [results |-> results, write_ok |-> write_ok])]
    IN IF classified.raised THEN [seen EXCEPT !.status = "raised"]
       ELSE IF Applies(c, suggestions) THEN
            IF write_ok
            THEN [seen EXCEPT !.written =
                                 Append(@, [transaction_id |-> tx_id,
                                            category |-> suggestions[1].category,
                                            confidence |-> suggestions[1].confidence,
                                            classification_method |->
                                                ClassifierToMethod(suggestions[1].classifier)]),
                              !.classified_count = @ + 1]
            ELSE WriteRaised(seen)
       ELSE IF suggestions # << >> /\ suggestions[1].confidence >= ReviewMinConfidence
            THEN [seen EXCEPT !.suggestions_for_review =
                                 Append(@, [transaction_id |-> tx_id,
                                            suggestions |-> TopSuggestions(suggestions)])]
            ELSE seen

\* What the classifiers return for the records of the checked batches.
SweepNothing == << NoneResult, NoneResult, NoneResult, NoneResult >>
SweepLlm(confidence) ==
    << NoneResult, [category |-> "Mat", confidence |-> confidence], NoneResult, NoneResult >>
SweepLlmBelowRule ==
    << NoneResult, [category |-> "Mat", confidence |-> 50],
       [category |-> "Transport", confidence |-> 95], NoneResult >>
SweepFourCategories ==
    << [category |-> "Mat", confidence |-> 70], [category |-> "Transport", confidence |-> 65],
       [category |-> "Nöje", confidence |-> 80], [category |-> "Boende", confidence |-> 75] >>
SweepRule ==
    << NoneResult, NoneResult, [category |-> "Mat", confidence |-> 90], NoneResult >>
SweepRaises == << NoneResult, NoneResult, RaisedResult, NoneResult >>
SweepResults ==
    {SweepNothing, SweepLlm(90), SweepLlm(55), SweepLlm(20), SweepLlmBelowRule,
     SweepFourCategories, SweepRule, SweepRaises}

\* confidence_threshold values: below the review floor, the default, the
\* spec's example, and one no confidence reaches.
SweepThresholds == {30, 70, 80, 101}

\* Number of records get_uncategorized_transactions returns at most.
MaxBatch == 3

\* The engine's auto_classify_uncategorized is called, n records of the store
\* being uncategorized.  Its signature is (self, confidence_threshold=0.7,
\* max_suggestions=100): called with progress_callback=... it raises TypeError
\* (unexpected keyword argument) before its body runs; otherwise it fetches
\* its batch.
sweep_begin ==
    /\ cl = NoCall
    /\ \E confidence_threshold \in SweepThresholds, n \in 0 .. MaxBatch,
          progress_callback \in BOOLEAN :
          cl' = IF progress_callback
                THEN [SweepStart(confidence_threshold, n) EXCEPT
                         !.progress_callback = TRUE, !.status = "TypeError"]
                ELSE SweepStart(confidence_threshold, n)
    /\ UNCHANGED << rows, handle, threads, calls, now, lastOp, lock,
                    shutdown_requested, prechecked, serving, app >>

\* def auto_classify_uncategorized(self, confidence_threshold=0.7, ...)
DefaultConfidenceThreshold == 70

\* logic.auto_classify_uncategorized(progress_callback=...): the method of the
\* logic object is not part of the source tree.  It accepts the keyword the
\* engine's method rejects, so it is not that method called as it stands; it
\* is taken to be the sweep the specification describes: the loop above, run
\* with the default threshold since it is given none, invoking
\* progress_callback(current_index, total, label) after each record.
LogicAutoClassify(n) ==
    [SweepStart(DefaultConfidenceThreshold, n) EXCEPT !.progress_callback = TRUE]

\* The logic method's call of the callback after a record; the engine's own
\* loop makes no such call.
LogicProgress(c) ==
    IF c.caller = "AutoClassificationTask.run" /\ c.status = "running"
    THEN [c EXCEPT !.progress_calls = Append(@, [current |-> c.i, total |-> c.n])]
    ELSE c

\* AutoClassificationTask.run(progress_callback, confidence_threshold), the
\* payload execute_task runs for the auto-classify endpoint: it keeps the
\* callback and calls self.logic.auto_classify_uncategorized(
\* progress_callback=self.progress_callback).
AutoClassificationTask_run ==
    /\ cl = NoCall
    /\ \E confidence_threshold \in SweepThresholds, n \in 0 .. MaxBatch :
          cl' = [LogicAutoClassify(n) EXCEPT !.caller = "AutoClassificationTask.run",
                                             !.submitted = confidence_threshold]
    /\ UNCHANGED << rows, handle, threads, calls, now, lastOp, lock,
                    shutdown_requested, prechecked, serving, app >>

\* The loop body for the next record.
sweep_record ==
    /\ cl.op = "sweep"
    /\ cl.status = "running"
    /\ cl.i < cl.n
    /\ \E results \in SweepResults :
          \E write_ok \in (IF Applies(cl, classify_transaction(LlmFirstClassifiers, results).suggestions)
                           THEN BOOLEAN ELSE {TRUE}) :
              cl' = LogicProgress(SweepStep(cl, results, write_ok))
    /\ UNCHANGED << rows, handle, threads, calls, now, lastOp, lock,
                    shutdown_requested, prechecked, serving, app >>

\* return classified_count, suggestions_for_review
sweep_return ==
    /\ cl.op = "sweep"
    /\ cl.status = "running"
    /\ cl.i = cl.n
    /\ cl' = [cl EXCEPT !.status = "returned"]
    /\ UNCHANGED << rows, handle, threads, calls, now, lastOp, lock,
                    shutdown_requested, prechecked, serving, app >>


\* --------------------------------------------------------------------- text
\* A description is the sequence of its words (description.split()); its text
\* is the words joined by single spaces, which has nothing for strip() to
\* remove.
RECURSIVE Join(_)
Join(description) ==
    IF Len(description) = 0 THEN ""
    ELSE IF Len(description) = 1 THEN description[1]
    ELSE description[1] \o " " \o Join(Tail(description))

\* The i-th character of a text, and the set of a text's characters.
Char(text, i) == SubSeq(text, i, i)
Chars(text) == {Char(text, i) : i \in 1 .. Len(text)}

\* The letters of the descriptions and patterns, and the other characters
\* that \w matches.
Lowercase == "abcdefghijklmnopqrstuvwxyzåäöé"
Uppercase == "ABCDEFGHIJKLMNOPQRSTUVWXYZÅÄÖÉ"
DigitsAndUnderscore == "0123456789_"
WordChars == Chars(Uppercase \o Lowercase \o DigitsAndUnderscore)

\* str.upper(), character by character.
UpperChar ==
    [c \in Chars(Lowercase) |->
        Char(Uppercase, CHOOSE i \in 1 .. Len(Lowercase) : Char(Lowercase, i) = c)]
RECURSIVE Upper(_)
Upper(text) ==
    IF Len(text) = 0 THEN ""
    ELSE (IF Char(text, 1) \in DOMAIN UpperChar THEN UpperChar[Char(text, 1)]
          ELSE Char(text, 1))
         \o Upper(SubSeq(text, 2, Len(text)))

\* description.upper()
DescriptionUpper(description) == Upper(Join(description))

\* `literal in text`
Holds(text, literal) ==
    \E i \in 1 .. Len(text) - Len(literal) + 1 :
        SubSeq(text, i, i + Len(literal) - 1) = literal

\* \w, \s and \b at position i of a text (\b stands between i - 1 and i).
WordChar(text, i) == i >= 1 /\ i <= Len(text) /\ Char(text, i) \in WordChars
SpaceAt(text, i) == i <= Len(text) /\ Char(text, i) \in {" ", "\t", "\n", "\r"}
Boundary(text, i) == WordChar(text, i - 1) # WordChar(text, i)

\* The pattern, a regular expression of the kinds the classifiers use, matches
\* the text from position i on when read from its j-th character.  Its
\* elements are \b, \s, \s*, .*, ^, $ and characters that stand for themselves.
RECURSIVE re_match(_, _, _, _)
re_match(pattern, j, text, i) ==
    LET c == Char(pattern, j)
        d == IF j < Len(pattern) THEN Char(pattern, j + 1) ELSE ""
        star == j + 2 <= Len(pattern) /\ Char(pattern, j + 2) = "*"
    IN IF j > Len(pattern) THEN TRUE
       ELSE IF c = "\\" /\ d = "b" THEN Boundary(text, i) /\ re_match(pattern, j + 2, text, i)
       ELSE IF c = "\\" /\ d = "s" /\ star
            THEN \/ re_match(pattern, j + 3, text, i)
                 \/ SpaceAt(text, i) /\ re_match(pattern, j, text, i + 1)
       ELSE IF c = "\\" /\ d = "s"
            THEN SpaceAt(text, i) /\ re_match(pattern, j + 2, text, i + 1)
       ELSE IF c = "." /\ d = "*"
            THEN \/ re_match(pattern, j + 2, text, i)
                 \/ /\ i <= Len(text)
                    /\ Char(text, i) # "\n"
                    /\ re_match(pattern, j, text, i + 1)
       ELSE IF c = "^" THEN i = 1 /\ re_match(pattern, j + 1, text, i)
       ELSE IF c = "$"
            THEN /\ i = Len(text) + 1 \/ (i = Len(text) /\ Char(text, i) = "\n")
                 /\ re_match(pattern, j + 1, text, i)
       ELSE /\ i <= Len(text)
            /\ Char(text, i) = c
            /\ re_match(pattern, j + 1, text, i + 1)

\* re.search(pattern, text) finds a match.
re_search(pattern, text) == \E i \in 1 .. Len(text) + 1 : re_match(pattern, 1, text, i)

\* set(re.findall(r'\b[A-ZÅÄÖ]{3,}\b', text)): the runs of three or more of
\* these letters that have no \w character on either side.
FindWords(text) ==
    {SubSeq(text, q[1], q[2]) :
        q \in {r \in (1 .. Len(text)) \X (1 .. Len(text)) :
                 /\ r[2] >= r[1] + 2
                 /\ \A k \in r[1] .. r[2] : Char(text, k) \in Chars("ABCDEFGHIJKLMNOPQRSTUVWXYZÅÄÖ")
                 /\ ~WordChar(text, r[1] - 1)
                 /\ ~WordChar(text, r[2] + 1)}}

\* ------------------------------------------------------ RuleBasedClassifier

\* Rules of _load_default_rules, and one rule with a 'negative' filter.
RuleMat == [patterns |-> {"ICA", "COOP", "HEMKÖP", "WILLYS", "LIDL", "NETTO"},
            category |-> "Mat", confidence |-> 90, amount_filter |-> ""]
RuleFuel == [patterns |-> {"SHELL", "OKQ8", "PREEM", "CIRCLE K", "QSTAR"},
             category |-> "Transport", confidence |-> 85, amount_filter |-> ""]
RuleHousing == [patterns |-> {"HYRA", "ELNÄT", "VATTENFALL", "TELIA", "BREDBAND"},
                category |-> "Boende", confidence |-> 85, amount_filter |-> ""]
RuleIncome == [patterns |-> {"LÖN", "SALARY", "PENSION"},
               category |-> "Inkomst", confidence |-> 95, amount_filter |-> "positive"]
RuleExpense == [patterns |-> {"SHELL", "KÖP"},
                category |-> "Utgift", confidence |-> 80, amount_filter |-> "negative"]
RulePool == {RuleMat, RuleFuel, RuleHousing, RuleIncome, RuleExpense}

\* The amount filter lets the rule through.
AmountFilterPasses(rule, amount) ==
    /\ ~(rule.amount_filter = "positive" /\ amount <= 0)
    /\ ~(rule.amount_filter = "negative" /\ amount >= 0)

\* `re.search(pattern, description)` for some pattern of the rule, description
\* being the upper-cased text.
RuleMatches(rule, description) ==
    \E pattern \in rule.patterns : re_search(pattern, description)

\* RuleBasedClassifier.classify: the loop over self.rules from rule k on,
\* best being (best_match, best_confidence).
RECURSIVE RuleLoop(_, _, _, _, _)
RuleLoop(rules, description, amount, k, best) ==
    IF k > Len(rules) THEN best
    ELSE IF /\ AmountFilterPasses(rules[k], amount)
            /\ RuleMatches(rules[k], description)
            /\ rules[k].confidence > best.confidence
         THEN RuleLoop(rules, description, amount, k + 1,
                       [category |-> rules[k].category, confidence |-> rules[k].confidence])
         ELSE RuleLoop(rules, description, amount, k + 1, best)

\* RuleBasedClassifier.classify: `description = transaction.get('description',
\* '').upper()` and the loop.
RuleBasedClassify(rules, description, amount) ==
    RuleLoop(rules, DescriptionUpper(description), amount, 1, NoneResult)

\* Longest rule list, longest description and largest amount of the check.
MaxRules == 3
MaxWords == 2
MaxAmount == 1

RuleWords == {"ica", "SHELL", "hyra", "LÖN", "TAXI"}

\* Sequences without repetition of at most n elements of S.
SeqsUpTo(S, n) == UNION {[1 .. k -> S] : k \in 0 .. n}
Distinct(seq) == \A i, j \in DOMAIN seq : i # j => seq[i] # seq[j]

\* One call of RuleBasedClassifier.classify.
rule_classify_call ==
    /\ cl = NoCall
    /\ \E rules \in {r \in SeqsUpTo(RulePool, MaxRules) : Distinct(r)},
          description \in SeqsUpTo(RuleWords, MaxWords),
          amount \in (0 - MaxAmount) .. MaxAmount :
          cl' = [op |-> "RuleBasedClassifier.classify", rules |-> rules,
                 description |-> description, amount |-> amount,
                 out |-> RuleBasedClassify(rules, description, amount)]
    /\ UNCHANGED << rows, handle, threads, calls, now, lastOp, lock,
                    shutdown_requested, prechecked, serving, app >>


\* ------------------------------------------------------- LearningClassifier
\* `if best_score > 0.4` and `min(best_score, 0.95)`
LearningMinScore == 40
LearningMaxConfidence == 95

\* The weights of the word term and the amount term, and the largest boost.
WordWeight == 70
AmountWeight == 30
MaxBoost == 10

Min2(a, b) == IF a < b THEN a ELSE b
Max2(a, b) == IF a > b THEN a ELSE b
Abs(a) == IF a < 0 THEN 0 - a ELSE a

\* words = set(re.findall(r'\b[A-ZÅÄÖ]{3,}\b', description))
LongWords(description) == FindWords(DescriptionUpper(description))

\* word_score * 0.7, in hundredths.
WordTerm(words, pattern) ==
    IF pattern.common_words # {}
    THEN (WordWeight * Cardinality(words \cap pattern.common_words))
             \div Cardinality(pattern.common_words)
    ELSE 0

\* max(0, 1 - amount_diff / (amount_std * 2)) * 0.3, in hundredths.
AmountTerm(amount, pattern) ==
    IF pattern.amount_std > 0
    THEN (AmountWeight * Max2(0, 2 * pattern.amount_std - Abs(amount - pattern.avg_amount)))
             \div (2 * pattern.amount_std)
    ELSE 0

\* min(0.1, transaction_count / 100), in hundredths.
VolumeBoost(pattern) == Min2(MaxBoost, pattern.transaction_count)

LearningScore(words, amount, pattern) ==
    WordTerm(words, pattern) + AmountTerm(amount, pattern) + VolumeBoost(pattern)

\* The loop over self.category_patterns from entry k on.
RECURSIVE LearningLoop(_, _, _, _, _)
LearningLoop(category_patterns, words, amount, k, best) ==
    IF k > Len(category_patterns) THEN best
    ELSE IF LearningScore(words, amount, category_patterns[k]) > best.confidence
         THEN LearningLoop(category_patterns, words, amount, k + 1,
                           [category |-> category_patterns[k].category,
                            confidence |-> LearningScore(words, amount, category_patterns[k])])
         ELSE LearningLoop(category_patterns, words, amount, k + 1, best)

\* best_category and best_score after the loop.
LearningBest(category_patterns, description, amount) ==
    LearningLoop(category_patterns, LongWords(description), amount, 1, NoneResult)

\* A cap that lets every score through.
Uncapped(best_score) == best_score

\* min(best_score, 0.95)
CapConfidence(best_score) == Min2(best_score, LearningMaxConfidence)

\* LearningClassifier.classify
LearningClassify(category_patterns, description, amount) ==
    LET best == LearningBest(category_patterns, description, amount)
    IN IF category_patterns = << >> THEN NoneResult
       ELSE IF best.confidence > LearningMinScore
            THEN [category |-> best.category, confidence |-> CapConfidence(best.confidence)]
            ELSE NoneResult

\* Profiles _build_patterns can produce, for the check: on these the scores
\* are whole hundredths and no two float sums differ by rounding alone.
LearnedProfiles(category) ==
    {[category |-> category, common_words |-> w, avg_amount |-> 0,
      amount_std |-> s, transaction_count |-> c] :
        w \in {{}, {"ICA"}, {"ICA", "SHELL"}}, s \in {0, 1}, c \in {1, 3, 10, 50}}

LearnedPatternLists ==
    {<< >>} \cup {<< p >> : p \in LearnedProfiles("Mat")}
    \cup {<< p, q >> : p \in LearnedProfiles("Mat"), q \in LearnedProfiles("Transport")}

\* One call of LearningClassifier.classify.
learning_classify_call ==
    /\ cl = NoCall
    /\ \E category_patterns \in LearnedPatternLists,
          description \in {<< >>, << "ica" >>, << "ica", "SHELL" >>, << "SL" >>},
          amount \in {0, 1, 2} :
          cl' = [op |-> "LearningClassifier.classify",
                 category_patterns |-> category_patterns,
                 description |-> description, amount |-> amount,
                 best_score |-> LearningBest(category_patterns, description, amount).confidence,
                 out |-> LearningClassify(category_patterns, description, amount)]
    /\ UNCHANGED << rows, handle, threads, calls, now, lastOp, lock,
                    shutdown_requested, prechecked, serving, app >>


\* ------------------------------------------------------ the LLM classifiers
\* The category list both LLM classifiers read from logic.get_categories().
LlmCategories == << "Mat", "Transport" >>

\* The fixed confidences of the free-text fallbacks.
DockerFallbackConfidence == 65
FastFallbackConfidence == 75

\* `confidence > 0.5`, the bar for caching a result.
CacheMinConfidence == 50

\* Descriptions shorter than this are not classified.
MinDescriptionLength == 3

\* len(description.strip())
StrippedLength(description) == Len(Join(description))

\* max(0.0, min(1.0, confidence))
Clamp(confidence) == Max2(0, Min2(100, confidence))

\* The inference service's reply.  kind says what the parsers make of the
\* text: "json" an object with a numeric confidence, "json_nan" one whose
\* confidence is NaN (min(1.0, nan) is 1.0), "json_badnum" one whose
\* confidence is not a number (float raises ValueError), "json_nullconf" one
\* whose confidence is null (float raises TypeError), "json_short" an object
\* that carries its category and numeric confidence under the keys "c" and
\* "p", "broken_json" braces around text json.loads rejects, "json_value" no
\* braces and a text json.loads accepts (a JSON string, list or number, which
\* has no .get), "text" no braces and no JSON.  mentions are the category
\* names found in the raw text.
Reply(kind, category, confidence, mentions) ==
    [kind |-> kind, category |-> category, confidence |-> confidence, mentions |-> mentions]

\* float(result.get('confidence', 0.0)) once clamped.
ClampedConfidence(reply) ==
    IF reply.kind = "json_nan" THEN 100 ELSE Clamp(reply.confidence)

InCategories(category, categories) ==
    \E k \in DOMAIN categories : categories[k] = category

\* The first category of the list whose name the text holds.
RECURSIVE FallbackScan(_, _, _, _)
FallbackScan(mentions, categories, k, confidence) ==
    IF k > Len(categories) THEN NoneResult
    ELSE IF categories[k] \in mentions
         THEN [category |-> categories[k], confidence |-> confidence]
         ELSE FallbackScan(mentions, categories, k + 1, confidence)

\* DockerLLMClassifier._fallback_parse
FallbackParse(reply, categories) ==
    FallbackScan(reply.mentions, categories, 1, DockerFallbackConfidence)

\* DockerLLMClassifier._parse_llm_response.  It reads the keys 'category' and
\* 'confidence' only: a "json_short" reply has neither, so its category is
\* None.  json.JSONDecodeError and ValueError lead to _fallback_parse; the
\* TypeError of float(None) and the AttributeError of a JSON value without
\* .get land in `except Exception`, which returns (None, 0.0).
ParseLlmResponse(reply, categories) ==
    IF reply.kind \in {"json", "json_nan"}
    THEN IF CategoryTruthy(reply.category) /\ InCategories(reply.category, categories)
         THEN [category |-> reply.category, confidence |-> ClampedConfidence(reply)]
         ELSE NoneResult
    ELSE IF reply.kind \in {"json_badnum", "broken_json", "text"}
         THEN FallbackParse(reply, categories)
         ELSE NoneResult

\* DockerLLMClassifier.classify; response is None when _call_ollama_api gave
\* up, else Some(reply).
DockerClassify(available, description, response, confidence_threshold) ==
    IF ~available THEN NoneResult
    ELSE IF StrippedLength(description) < MinDescriptionLength THEN NoneResult
    ELSE IF response = None THEN NoneResult
    ELSE IF ParseLlmResponse(response[1], LlmCategories).confidence >= confidence_threshold
         THEN ParseLlmResponse(response[1], LlmCategories)
         ELSE NoneResult

\* FastLLMClassifier._parse_fast_response: `result.get('category') or
\* result.get('c')` and `float(result.get('confidence', result.get('p', 0.0)))`
\* read the short keys as well; json.loads is tried only on a text with
\* braces, so every text without them goes to the scan for category names;
\* every exception gives (None, 0.0).
ParseFastResponse(reply, categories) ==
    IF reply.kind \in {"json", "json_nan", "json_short"}
    THEN IF CategoryTruthy(reply.category) /\ InCategories(reply.category, categories)
         THEN [category |-> reply.category, confidence |-> ClampedConfidence(reply)]
         ELSE FallbackScan(reply.mentions, categories, 1, FastFallbackConfidence)
    ELSE IF reply.kind \in {"json_value", "text"}
         THEN FallbackScan(reply.mentions, categories, 1, FastFallbackConfidence)
         ELSE NoneResult

\* FastLLMClassifier.classify after a cache miss, from the endpoint's response
\* on: the result it returns and what it hands to _cache_response (None when
\* it stores nothing).
FastMiss(response, confidence_threshold) ==
    LET parsed == ParseFastResponse(response[1], LlmCategories)
    IN IF response = None THEN [out |-> NoneResult, store |-> None]
       ELSE IF CategoryTruthy(parsed.category) /\ parsed.confidence > CacheMinConfidence
            THEN [out |-> IF parsed.confidence >= confidence_threshold
                          THEN parsed ELSE NoneResult,
                  store |-> Some(parsed)]
            ELSE [out |-> NoneResult, store |-> None]

\* FastLLMClassifier.classify for one cache key when no other call runs beside
\* it: cache is None or Some(result).  Gives the returned result and the cache
\* entry afterwards.
FastClassify(available, description, cache, response, confidence_threshold) ==
    LET miss == FastMiss(response, confidence_threshold)
    IN IF ~available THEN [out |-> NoneResult, cache |-> cache]
       ELSE IF StrippedLength(description) < MinDescriptionLength
            THEN [out |-> NoneResult, cache |-> cache]
       ELSE IF cache # None THEN [out |-> cache[1], cache |-> cache]
       ELSE [out |-> miss.out, cache |-> IF miss.store # None THEN miss.store ELSE cache]

\* Replies of the check: confidences below 0, inside and above 1.
ReplyConfidences == {0 - 50, 0, 55, 85, 100, 150}
Replies ==
    {Reply("json", c, x, IF c = "Mat" THEN {"Mat"} ELSE {}) :
        c \in {PyNone, "Mat", "Kläder"}, x \in ReplyConfidences}
    \cup {Reply(k, PyNone, 0, m) :
            k \in {"json_nan", "json_badnum", "json_nullconf", "broken_json", "json_value",
                   "text"},
            m \in {{}, {"Transport"}, {"Mat", "Transport"}}}
    \cup {Reply("json", "Kläder", 85, {"Transport"})}
    \cup {Reply("json_short", c, x, IF c = "Mat" THEN {"Mat"} ELSE {}) :
            c \in {"Mat", "Kläder"}, x \in {55, 90, 150}}

Responses == {None} \cup {Some(r) : r \in Replies}

\* LLM_CONFIDENCE_THRESHOLD: the default and a setting that disables it.
LlmThresholds == {0, 60}

LlmDescriptions == {<< >>, << "SL" >>, << "ica" >>}

\* One call of DockerLLMClassifier.classify.
docker_classify_call ==
    /\ cl = NoCall
    /\ \E available \in BOOLEAN, description \in LlmDescriptions,
          response \in Responses, confidence_threshold \in LlmThresholds :
          cl' = [op |-> "DockerLLMClassifier.classify", available |-> available,
                 description |-> description, response |-> response,
                 confidence_threshold |-> confidence_threshold,
                 out |-> DockerClassify(available, description, response, confidence_threshold)]
    /\ UNCHANGED << rows, handle, threads, calls, now, lastOp, lock,
                    shutdown_requested, prechecked, serving, app >>

\* classify calls that may wait for the endpoint at the same time.
MaxWaiting == 2

\* A FastLLMClassifier on which no classify call has been made, watched for
\* one cache key: cache is the entry of that key, filled what the call that
\* stored it returned to its caller, waiting the calls that have missed the
\* cache and not yet stored their answer.
FastFresh(available, description, confidence_threshold) ==
    [op |-> "FastLLMClassifier.classify", available |-> available,
     description |-> description, confidence_threshold |-> confidence_threshold,
     step |-> "new", response |-> None, out |-> NoneResult,
     cache |-> None, filled |-> None, waiting |-> 0]

\* A call of FastLLMClassifier.classify, the first on a new classifier or one
\* more for the same cache key, up to its _get_cached_response: it returns at
\* once when the classifier is unavailable, the description short or the key
\* cached; otherwise it leaves cache_lock and asks the endpoint.
fast_classify_call ==
    /\ cl = NoCall \/ cl.op = "FastLLMClassifier.classify"
    /\ \E available \in BOOLEAN, description \in LlmDescriptions,
          confidence_threshold \in LlmThresholds :
          /\ cl # NoCall => /\ available = cl.available
                            /\ description = cl.description
                            /\ confidence_threshold = cl.confidence_threshold
          /\ LET c == IF cl = NoCall
                      THEN FastFresh(available, description, confidence_threshold)
                      ELSE cl
             IN IF ~available \/ StrippedLength(description) < MinDescriptionLength
                THEN cl' = [c EXCEPT !.step = "skipped", !.out = NoneResult]
                ELSE IF c.cache # None
                THEN cl' = [c EXCEPT !.step = "hit", !.out = c.cache[1]]
                ELSE /\ c.waiting < MaxWaiting
                     /\ cl' = [c EXCEPT !.step = "miss", !.waiting = @ + 1]
    /\ UNCHANGED << rows, handle, threads, calls, now, lastOp, lock,
                    shutdown_requested, prechecked, serving, app >>

\* A call that missed the cache gets the endpoint's response, parses it,
\* takes cache_lock again in _cache_response to store a result of confidence
\* above 0.5, whatever another call has stored for the key meanwhile, and
\* returns.
fast_classify_return ==
    /\ cl.op = "FastLLMClassifier.classify"
    /\ cl.waiting > 0
    /\ \E response \in Responses :
          LET miss == FastMiss(response, cl.confidence_threshold)
          IN cl' = [cl EXCEPT !.step = "returned", !.waiting = @ - 1,
                              !.response = response, !.out = miss.out,
                              !.cache = IF miss.store # None THEN miss.store ELSE @,
                              !.filled = IF miss.store # None THEN Some(miss.out) ELSE @]
    /\ UNCHANGED << rows, handle, threads, calls, now, lastOp, lock,
                    shutdown_requested, prechecked, serving, app >>


\* ------------------------------------------ FastLLMClassifier.response_cache
\* self.max_cache_size, which is 1000 in the source: the check runs the same
\* code on a cache that is full after this many entries.
MaxCacheSize == 2

\* Cache keys (_get_cache_key: md5 of the upper-cased description and the
\* amount rounded to the nearest 10).
CacheKeys == {"ICA:-100", "ICA:-200", "SHELL:-500"}

\* The OrderedDict as the sequence of its items, oldest first.
CacheHas(cache, key) == \E k \in DOMAIN cache : cache[k].key = key
CacheItem(cache, key) == CHOOSE item \in {cache[k] : k \in DOMAIN cache} : item.key = key
CacheWithout(cache, key) == SelectSeq(cache, LAMBDA item : item.key # key)

\* _get_cached_response: on a hit the item is popped and stored again, which
\* moves it to the end.
GetCachedResponse(cache, key) ==
    IF CacheHas(cache, key)
    THEN [result |-> Some(CacheItem(cache, key).result),
          cache |-> Append(CacheWithout(cache, key), CacheItem(cache, key))]
    ELSE [result |-> None, cache |-> cache]

\* _cache_response: `if len(self.response_cache) >= self.max_cache_size:
\* self.response_cache.popitem(last=False)`, then
\* `self.response_cache[cache_key] = result`, which keeps the place of a key
\* the OrderedDict already holds and puts a new key at the end.
CacheResponse(cache, key, result) ==
    LET kept == IF Len(cache) >= MaxCacheSize THEN Tail(cache) ELSE cache
    IN IF CacheHas(kept, key)
       THEN [k \in DOMAIN kept |->
                IF kept[k].key = key THEN [key |-> key, result |-> result] ELSE kept[k]]
       ELSE Append(kept, [key |-> key, result |-> result])

\* The calls of classify that have missed the cache and wait for the
\* endpoint, counted per key.
NoneWaiting == [key \in CacheKeys |-> 0]
RECURSIVE WaitingCalls(_, _)
WaitingCalls(waiting, keys) ==
    IF keys = {} THEN 0
    ELSE LET key == CHOOSE k \in keys : TRUE
         IN waiting[key] + WaitingCalls(waiting, keys \ {key})

\* A FastLLMClassifier on which no classify call has been made, watched for
\* its whole response_cache.
CacheFresh ==
    [op |-> "response_cache", key |-> "", step |-> "new", hit |-> FALSE,
     cache |-> << >>, waiting |-> NoneWaiting]

\* A call of classify on one classifier, for any of the keys, up to its
\* _get_cached_response: a hit answers from the cache and moves the item to
\* the end; a miss leaves cache_lock and asks the endpoint.
response_cache_call ==
    /\ cl = NoCall \/ cl.op = "response_cache"
    /\ \E key \in CacheKeys :
          LET c == IF cl = NoCall THEN CacheFresh ELSE cl
              got == GetCachedResponse(c.cache, key)
          IN IF got.result # None
             THEN cl' = [c EXCEPT !.key = key, !.step = "hit", !.hit = TRUE,
                                  !.cache = got.cache]
             ELSE /\ WaitingCalls(c.waiting, CacheKeys) < MaxWaiting
                  /\ cl' = [c EXCEPT !.key = key, !.step = "miss", !.hit = FALSE,
                                     !.waiting[key] = @ + 1]
    /\ UNCHANGED << rows, handle, threads, calls, now, lastOp, lock,
                    shutdown_requested, prechecked, serving, app >>

\* A call that missed gets the endpoint's answer and, when that parses to a
\* category with a confidence above 0.5, takes cache_lock again in
\* _cache_response and stores it in the cache as it is by then.
response_cache_return ==
    /\ cl.op = "response_cache"
    /\ \E key \in CacheKeys, confidence \in {55, 85}, answered \in BOOLEAN :
          LET parsed == [category |-> "Mat", confidence |-> confidence]
          IN /\ cl.waiting[key] > 0
             /\ cl' = [cl EXCEPT !.key = key, !.step = "returned", !.hit = FALSE,
                                 !.waiting[key] = @ - 1,
                                 !.cache = IF answered /\ parsed.confidence > CacheMinConfidence
                                           THEN CacheResponse(@, key, parsed)
                                           ELSE @]
    /\ UNCHANGED << rows, handle, threads, calls, now, lastOp, lock,
                    shutdown_requested, prechecked, serving, app >>

\* FastLLMClassifier.clear_cache(): `self.response_cache.clear()` under
\* cache_lock; calls that wait for the endpoint go on waiting.
clear_cache ==
    /\ cl.op \in {"FastLLMClassifier.classify", "response_cache"}
    /\ cl' = IF cl.op = "response_cache"
             THEN [cl EXCEPT !.step = "clear_cache", !.hit = FALSE, !.cache = << >>]
             ELSE [cl EXCEPT !.step = "clear_cache", !.cache = None, !.filled = None]
    /\ UNCHANGED << rows, handle, threads, calls, now, lastOp, lock,
                    shutdown_requested, prechecked, serving, app >>

\* ------------------------------------------------------ SuperFastClassifier
\* Tier 1 accepts at 0.85, tier 2 at 0.8; the LLM is asked when the rule
\* confidence is under 0.7 or the description has more than 4 tokens, and its
\* answer must beat max(rule_confidence, 0.6).
InstantMinConfidence == 85
RuleAcceptConfidence == 80
LlmRouteConfidence == 70
LlmPreferFloor == 60
ComplexTokens == 4

\* _build_enhanced_patterns: the regular expressions as the source writes them.
InstantPatterns ==
    << [patterns |-> {"\\bICA\\b", "\\bCOOP\\b", "\\bHEMKÖP\\b", "\\bWILLYS\\b", "\\bLIDL\\b",
                      "\\bNETTO\\b", "\\bMAXI\\b", "\\bSTORE\\b"},
        category |-> "Mat", confidence |-> 95],
       [patterns |-> {"\\bSL\\b", "SL\\s", "PRESSBYRÅN.*SL", "\\bMTR\\b", "SHELL", "OKQ8",
                      "PREEM", "CIRCLE\\s*K", "QSTAR", "ST1", "PARKERING", "P-HUS", "APCOA",
                      "TAXI"},
        category |-> "Transport", confidence |-> 90],
       [patterns |-> {"MCDONALD", "BURGER", "PIZZA", "RESTAURANG", "CAFÉ", "ESPRESSO", "KFC",
                      "MAX\\s", "SUBWAY", "SUSHI", "THAI", "INDIAN"},
        category |-> "Nöje", confidence |-> 88],
       [patterns |-> {"SYSTEMBOLAGET", "SYSTEMBOLAGE"},
        category |-> "Mat", confidence |-> 95],
       [patterns |-> {"APOTEKET", "APOTEK", "VÅRDCENTRAL", "FOLKTANDVÅRD", "TANDLÄKARE", "LÄKARE"},
        category |-> "Hälsa", confidence |-> 92],
       [patterns |-> {"VATTENFALL", "ELNÄT", "ELHANDEL", "HYRA", "BREDBAND", "TELIA", "TELENOR",
                      "COMHEM", "FÖRSÄKRING"},
        category |-> "Boende", confidence |-> 90],
       [patterns |-> {"H&M", "ZARA", "KLäDER", "IKEA", "ELGIGANTEN", "MEDIAMARKT",
                      "CLAS\\s*OHLSON"},
        category |-> "Övriga", confidence |-> 85] >>

\* `re.search(pattern, description_upper)` for some pattern of the group.
InstantMatches(group, description_upper) ==
    \E pattern \in group.patterns : re_search(pattern, description_upper)

\* _classify_with_patterns: the loop over self.instant_patterns from group k on.
RECURSIVE InstantLoop(_, _, _, _)
InstantLoop(description_upper, categories, k, best) ==
    IF k > Len(InstantPatterns) THEN best
    ELSE IF /\ InstantPatterns[k].confidence > best.confidence
            /\ InstantPatterns[k].category \in categories
            /\ InstantMatches(InstantPatterns[k], description_upper)
         THEN InstantLoop(description_upper, categories, k + 1,
                          [category |-> InstantPatterns[k].category,
                           confidence |-> InstantPatterns[k].confidence])
         ELSE InstantLoop(description_upper, categories, k + 1, best)

\* _classify_with_patterns: `description_upper = description.upper()` and the loop.
ClassifyWithPatterns(description, categories) ==
    InstantLoop(DescriptionUpper(description), categories, 1, NoneResult)

AmbiguousTerms == {"BETALNING", "KÖPT", "SWISH", "KORT", "ONLINE"}

\* `any(term in description_upper for term in ambiguous_terms)`
Ambiguous(description) ==
    \E term \in AmbiguousTerms : Holds(DescriptionUpper(description), term)

\* A gate that sends every description to the LLM when there is one.
UseLlmWhenAvailable(llm_available, description, rule_confidence) == llm_available

\* _should_use_llm
ShouldUseLlm(llm_available, description, rule_confidence) ==
    /\ llm_available
    /\ \/ rule_confidence < LlmRouteConfidence
       \/ Len(description) > ComplexTokens
       \/ Ambiguous(description)

\* The rules of the RuleBasedClassifier tier 2 runs: _load_default_rules.
SuperFastRules ==
    << RuleMat,
       [patterns |-> {"SYSTEMBOLAGET", "SYSTEMBOLAGE"}, category |-> "Mat",
        confidence |-> 95, amount_filter |-> ""],
       [patterns |-> {"SL\\s", "^SL$", "PRESSBYRÅN.*SL"}, category |-> "Transport",
        confidence |-> 90, amount_filter |-> ""],
       RuleFuel,
       [patterns |-> {"PARKERING", "P-HUS", "APCOA"}, category |-> "Transport",
        confidence |-> 80, amount_filter |-> ""],
       [patterns |-> {"APOTEKET", "APOTEK", "VÅRDCENTRAL", "FOLKTANDVÅRD"},
        category |-> "Hälsa", confidence |-> 90, amount_filter |-> ""],
       [patterns |-> {"RESTAURANG", "CAFÉ", "PIZZERIA", "SUSHI"}, category |-> "Nöje",
        confidence |-> 80, amount_filter |-> ""],
       [patterns |-> {"CINEMA", "FILMSTADEN", "SF BIO"}, category |-> "Nöje",
        confidence |-> 90, amount_filter |-> ""],
       RuleHousing,
       RuleIncome >>

\* A rule whose confidence lies under tier 2's 0.8 (self.rule_classifier.rules
\* is a plain list; the rules built in all carry 0.8 or more).
RuleKiosk == [patterns |-> {"KIOSK"}, category |-> "Övriga", confidence |-> 75,
              amount_filter |-> ""]

\* An LLM answer that is taken whenever it names a category.
LlmAlwaysPreferred(llm_result, rule_confidence) == CategoryTruthy(llm_result.category)

\* `if llm_category and llm_confidence > max(rule_confidence, 0.6)`
LlmPreferred(llm_result, rule_confidence) ==
    /\ CategoryTruthy(llm_result.category)
    /\ llm_result.confidence > Max2(rule_confidence, LlmPreferFloor)

\* The tier at which SuperFastClassifier.classify leaves: "short" (description
\* under 3 characters), "instant", "rule", or "llm" when it goes on to tier 3
\* and calls self.llm_classifier.classify, "fallback" when it goes on without.
SuperFastTier(rules, description, amount, categories, llm_available) ==
    LET instant == ClassifyWithPatterns(description, categories)
        rule == RuleBasedClassify(rules, description, amount)
    IN IF StrippedLength(description) < MinDescriptionLength THEN "short"
       ELSE IF CategoryTruthy(instant.category) /\ instant.confidence >= InstantMinConfidence
            THEN "instant"
       ELSE IF CategoryTruthy(rule.category) /\ rule.confidence >= RuleAcceptConfidence
            THEN "rule"
       ELSE IF ShouldUseLlm(llm_available, description, rule.confidence) THEN "llm"
       ELSE "fallback"

\* What one call adds to self.stats by the time it returns.
SuperFastStats(rules, description, amount, categories, llm_available, llm_result) ==
    LET tier == SuperFastTier(rules, description, amount, categories, llm_available)
        rule == RuleBasedClassify(rules, description, amount)
    IN [total_calls |-> 1,
        instant_hits |-> IF tier = "instant" THEN 1 ELSE 0,
        llm_calls |-> IF tier = "llm" THEN 1 ELSE 0,
        rule_hits |-> IF \/ tier = "rule"
                         \/ /\ tier = "llm"
                            /\ ~LlmPreferred(llm_result, rule.confidence)
                            /\ CategoryTruthy(rule.category)
                         \/ tier = "fallback" /\ CategoryTruthy(rule.category)
                      THEN 1 ELSE 0]

\* SuperFastClassifier.classify; rules are those of self.rule_classifier,
\* llm_result is what self.llm_classifier.classify returns when it is asked.
SuperFastClassify(rules, description, amount, categories, llm_available, llm_result) ==
    LET instant == ClassifyWithPatterns(description, categories)
        rule == RuleBasedClassify(rules, description, amount)
        tier == SuperFastTier(rules, description, amount, categories, llm_available)
    IN CASE tier = "short" -> NoneResult
         [] tier = "instant" -> instant
         [] tier = "rule" -> rule
         [] OTHER ->
              IF tier = "llm" /\ LlmPreferred(llm_result, rule.confidence) THEN llm_result
              ELSE IF CategoryTruthy(rule.category) THEN rule
              ELSE NoneResult

SuperFastDescriptions ==
    {<< >>, << "SL" >>, << "ica" >>, << "SHELL" >>, << "hyra" >>, << "LÖN" >>, << "TAXI" >>,
     << "IKEA" >>, << "SWISH" >>, << "kiosk" >>, << "LÖN", "SWISH" >>, << "kiosk", "SWISH" >>,
     << "kiosk", "kiosk", "kiosk", "kiosk", "kiosk" >>,
     << "SL", "ACCESS" >>, << "SL", "hyra" >>, << "adsl", "telia" >>, << "CIRCLE", "K" >>,
     << "CLAS", "OHLSON" >>, << "MCDONALDS" >>, << "MAX", "kiosk" >>, << "ica", "maxi" >>,
     << "PRESSBYRÅN", "KIOSKSL" >>, << "kläder" >>, << "SWISHBETALNING" >>}

\* classify calls made on one SuperFastClassifier.
MaxHybridCalls == 2

\* The counters before any call (self.stats as __init__ leaves it).
NoStats == [total_calls |-> 0, instant_hits |-> 0, llm_calls |-> 0, rule_hits |-> 0]

\* `self.stats[...] += 1` for each counter of more.
AddStats(stats, more) ==
    [total_calls |-> stats.total_calls + more.total_calls,
     instant_hits |-> stats.instant_hits + more.instant_hits,
     llm_calls |-> stats.llm_calls + more.llm_calls,
     rule_hits |-> stats.rule_hits + more.rule_hits]

\* A SuperFastClassifier on which no classify call has been made: stats is
\* self.stats; waiting holds the calls that have not returned, each at
\* "tiers" (it has counted itself in total_calls and goes on to
\* _classify_with_patterns, which reads the categories of the store) or at
\* "llm" (it is inside self.llm_classifier.classify); description, amount,
\* step, added (what the call has added to the counters so far), llm_result
\* and out belong to the call that took the last step.
SuperFastFresh(rules, categories, llm_available) ==
    [op |-> "SuperFastClassifier.classify", rules |-> rules, categories |-> categories,
     llm_available |-> llm_available, stats |-> NoStats, waiting |-> << >>,
     description |-> << >>, amount |-> 0, step |-> "new", added |-> NoStats,
     llm_result |-> NoneResult, out |-> NoneResult]

\* What self.llm_classifier.classify, a FastLLMClassifier, may return for a
\* description: an answer of the endpoint or an entry of its cache, which is
\* returned whatever the confidence threshold.
LlmResults(description) ==
    {FastClassify(TRUE, description, None, response, confidence_threshold).out :
        response \in Responses, confidence_threshold \in LlmThresholds}

\* The classifiers and transactions of the calls below.
SuperFastInputs ==
    {SuperFastRules, << RuleKiosk >> \o SuperFastRules} \X SuperFastDescriptions
        \X {0 - 1, 1} \X {{"Mat"}, {"Mat", "Transport", "Boende", "Nöje", "Övriga"}}
        \X BOOLEAN

\* SuperFastClassifier.classify on each of them, from the length guard up to
\* the call of self.llm_classifier.classify: the tier, what the call has
\* added to self.stats and, when it has returned, its result.  (`@@ << >>`
\* makes the table an explicit function, evaluated once.)
SuperFastBegun ==
    [in \in SuperFastInputs |->
        LET tier == SuperFastTier(in[1], in[2], in[3], in[4], in[5])
        IN [tier |-> tier,
            counted |-> IF tier = "llm"
                        THEN [NoStats EXCEPT !.total_calls = 1, !.llm_calls = 1]
                        ELSE SuperFastStats(in[1], in[2], in[3], in[4], in[5], NoneResult),
            out |-> IF tier = "llm" THEN NoneResult
                    ELSE SuperFastClassify(in[1], in[2], in[3], in[4], in[5],
                                           NoneResult)]] @@ << >>

\* The rest of the calls that went to tier 3, for each answer of
\* self.llm_classifier.classify.
SuperFastEnded ==
    [in \in {i \in SuperFastInputs : SuperFastBegun[i].tier = "llm"} |->
        [llm_result \in LlmResults(in[2]) |->
            [counted |-> SuperFastStats(in[1], in[2], in[3], in[4], in[5], llm_result),
             out |-> SuperFastClassify(in[1], in[2], in[3], in[4], in[5], llm_result)]]
        @@ << >>] @@ << >>

\* The calls of a list without its k-th.
WithoutCall(waiting, k) == SubSeq(waiting, 1, k - 1) \o SubSeq(waiting, k + 1, Len(waiting))

\* A call of SuperFastClassifier.classify, the first on a new classifier or
\* one more on the same: `self.stats['total_calls'] += 1`, then the length
\* guard, which returns (None, 0.0) for a description under 3 characters.
\* Any other call goes on to the tiers, with total_calls already counted.
superfast_classify_call ==
    /\ cl = NoCall \/ cl.op = "SuperFastClassifier.classify"
    /\ \E rules \in {SuperFastRules, << RuleKiosk >> \o SuperFastRules},
          description \in SuperFastDescriptions, amount \in {0 - 1, 1},
          categories \in {{"Mat"}, {"Mat", "Transport", "Boende", "Nöje", "Övriga"}},
          llm_available \in BOOLEAN :
          /\ cl # NoCall => /\ rules = cl.rules
                            /\ categories = cl.categories
                            /\ llm_available = cl.llm_available
                            /\ cl.stats.total_calls < MaxHybridCalls
          /\ LET c == IF cl = NoCall THEN SuperFastFresh(rules, categories, llm_available)
                      ELSE cl
                 short == SuperFastBegun[<< rules, description, amount, categories,
                                            llm_available >>].tier = "short"
             IN cl' = [c EXCEPT !.description = description, !.amount = amount,
                                !.step = IF short THEN "returned" ELSE "counted",
                                !.stats.total_calls = @ + 1,
                                !.added = [NoStats EXCEPT !.total_calls = 1],
                                !.waiting = IF short THEN @
                                            ELSE Append(@, [description |-> description,
                                                            amount |-> amount,
                                                            at |-> "tiers"]),
                                !.llm_result = NoneResult,
                                !.out = NoneResult]
    /\ UNCHANGED << rows, handle, threads, calls, now, lastOp, lock,
                    shutdown_requested, prechecked, serving, app >>

\* A call that has counted itself runs tier 1 and tier 2
\* (_classify_with_patterns with logic.get_categories(), then
\* self.rule_classifier.classify): it counts an instant hit or a rule hit and
\* returns, or it counts `self.stats['llm_calls'] += 1` and calls
\* self.llm_classifier.classify, inside which it waits for the endpoint, or,
\* without an LLM to ask, it falls back to the rule result.
superfast_classify_tiers ==
    /\ cl.op = "SuperFastClassifier.classify"
    /\ \E k \in DOMAIN cl.waiting :
          LET call == cl.waiting[k]
              begun == SuperFastBegun[<< cl.rules, call.description, call.amount,
                                         cl.categories, cl.llm_available >>]
          IN /\ call.at = "tiers"
             /\ cl' = [cl EXCEPT !.description = call.description,
                                 !.amount = call.amount,
                                 !.step = IF begun.tier = "llm" THEN "waiting"
                                          ELSE "returned",
                                 !.stats = AddStats(@, [begun.counted EXCEPT
                                                           !.total_calls = 0]),
                                 !.added = begun.counted,
                                 !.waiting = IF begun.tier = "llm"
                                             THEN [@ EXCEPT ![k].at = "llm"]
                                             ELSE WithoutCall(@, k),
                                 !.llm_result = NoneResult,
                                 !.out = begun.out]
    /\ UNCHANGED << rows, handle, threads, calls, now, lastOp, lock,
                    shutdown_requested, prechecked, serving, app >>

\* self.llm_classifier.classify returns to a call that waited: the call
\* compares the answer with its rule result, counts a rule hit when it falls
\* back to that, and returns.
superfast_classify_return ==
    /\ cl.op = "SuperFastClassifier.classify"
    /\ \E k \in DOMAIN cl.waiting :
          LET call == cl.waiting[k]
          IN /\ call.at = "llm"
             /\ LET ended == SuperFastEnded[<< cl.rules, call.description, call.amount,
                                               cl.categories, cl.llm_available >>]
                IN \E llm_result \in DOMAIN ended :
                      cl' = [cl EXCEPT !.description = call.description,
                                       !.amount = call.amount,
                                       !.step = "returned",
                                       !.stats.rule_hits =
                                           @ + ended[llm_result].counted.rule_hits,
                                       !.added = ended[llm_result].counted,
                                       !.waiting = WithoutCall(@, k),
                                       !.llm_result = llm_result,
                                       !.out = ended[llm_result].out]
    /\ UNCHANGED << rows, handle, threads, calls, now, lastOp, lock,
                    shutdown_requested, prechecked, serving, app >>

\* ------------------------------------------------ the inference endpoint
\* _call_ollama_api(self, prompt, max_retries: int = 2)
DockerMaxRetries == 2

\* Requests one call may send: `for attempt in range(max_retries + 1)` in
\* DockerLLMClassifier, a single session.post in FastLLMClassifier.
MaxAttempts(classifier) ==
    IF classifier = "DockerLLMClassifier" THEN DockerMaxRetries + 1 ELSE 1

\* What one session.post leads to: status 200 with a reply, status 200 with an
\* empty 'response', another status, requests.exceptions.Timeout, any other
\* exception (a refused connection, a body that is not JSON).
PostOutcomes == {"200", "200 empty", "500", "timeout", "error"}

\* The reply a successful post carries in this check.
EndpointReply == Reply("json", "Mat", 85, {"Mat"})

\* classify's result once _call_ollama_api has returned response.
ClassifyAfterCall(classifier, response) ==
    IF classifier = "DockerLLMClassifier"
    THEN DockerClassify(TRUE, << "ica" >>, response, 60)
    ELSE FastClassify(TRUE, << "ica" >>, None, response, 60).out

\* classify reaches `response = self._call_ollama_api(prompt)`.
call_ollama_api_begin ==
    /\ cl = NoCall
    /\ \E classifier \in {"DockerLLMClassifier", "FastLLMClassifier"} :
          cl' = [op |-> "_call_ollama_api", classifier |-> classifier, attempt |-> 0,
                 requests |-> << >>, status |-> "calling", out |-> NoneResult]
    /\ UNCHANGED << rows, handle, threads, calls, now, lastOp, lock,
                    shutdown_requested, prechecked, serving, app >>

\* One pass of the retry loop: a post and what follows it.  A 200 returns the
\* reply text ('' is falsy: classify returns (None, 0.0)); anything else is
\* printed and, while attempt < max_retries, tried again after a pause; after
\* the last attempt the method returns None and classify (None, 0.0).
call_ollama_api_attempt ==
    /\ cl.op = "_call_ollama_api"
    /\ cl.status = "calling"
    /\ \E outcome \in PostOutcomes :
          LET sent == [cl EXCEPT !.requests = Append(@, outcome)] IN
          cl' = IF outcome = "200"
                THEN [sent EXCEPT !.status = "returned",
                                  !.out = ClassifyAfterCall(cl.classifier, Some(EndpointReply))]
                ELSE IF outcome = "200 empty" \/ cl.attempt + 1 >= MaxAttempts(cl.classifier)
                THEN [sent EXCEPT !.status = "returned",
                                  !.out = ClassifyAfterCall(cl.classifier, None)]
                ELSE [sent EXCEPT !.attempt = @ + 1]
    /\ UNCHANGED << rows, handle, threads, calls, now, lastOp, lock,
                    shutdown_requested, prechecked, serving, app >>

\* The classifiers and the engine, one call at a time.
NextClassify ==
    \/ classify_transaction_call
    \/ sweep_begin
    \/ AutoClassificationTask_run
    \/ sweep_record
    \/ sweep_return
    \/ rule_classify_call
    \/ learning_classify_call
    \/ docker_classify_call
    \/ fast_classify_call
    \/ fast_classify_return
    \/ clear_cache
    \/ response_cache_call
    \/ response_cache_return
    \/ superfast_classify_call
    \/ superfast_classify_tiers
    \/ superfast_classify_return
    \/ call_ollama_api_begin
    \/ call_ollama_api_attempt

SpecClassify == Init /\ [][NextClassify]_vars

\* ---------------------------------------------------------------- claims
AliveWorkers == {i \in TaskIds : is_alive(threads, i)}
RunningRowIds == {id \in TaskIds : rows[id].status = "running"}

\* C1: under every interleaving of execute_task calls at most one worker
\* thread executes at any time.
C1_AtMostOneWorker == Cardinality(AliveWorkers) <= 1

\* C2: no execute_task call is accepted while the row of a task accepted
\* earlier is still pending or running.
C2_NoAcceptWhileActive ==
    [][\A t \in DOMAIN calls :
          (calls[t] = "checked" /\ calls'[t] = "accepted")
          => \A u \in DOMAIN calls :
                (u # t /\ calls[u] = "accepted")
                => rows[u].status \in {"completed", "failed"}]_vars

\* C3: in every reachable state at most one row has status running.
C3_AtMostOneRunning == Cardinality(RunningRowIds) <= 1

\* C4: a row's status changes only pending -> running, running -> completed
\* and running -> failed; completed and failed rows never change status.
C4_StatusPath ==
    [][\A id \in DOMAIN rows :
          \/ rows'[id].status = rows[id].status
          \/ rows[id].status = "pending" /\ rows'[id].status = "running"
          \/ rows[id].status = "running" /\ rows'[id].status \in {"completed", "failed"}]_vars

\* C5: is_task_running called with a handle that refers to a dead thread
\* returns False, clears the handle, sets every running row to failed with
\* the fixed message and leaves every other row as it was.
C5_DeadHandleSweep ==
    [][(is_task_running /\ handle # None /\ ~is_alive(threads, handle[1]))
       => /\ lastOp'.ret = "False"
          /\ handle' = None
          /\ \A id \in DOMAIN rows :
                IF rows[id].status = "running"
                THEN /\ rows'[id].status = "failed"
                     /\ rows'[id].error_message = OrphanMessage
                ELSE rows'[id] = rows[id]]_vars

\* is_task_running has just found a dead handle and swept a running row.
C5_Witness ==
    /\ lastOp.name = "is_task_running" /\ lastOp.branch = "dead" /\ lastOp.swept
    /\ \E id \in TaskIds : rows[id].status = "failed" /\ rows[id].error_message = OrphanMessage
    /\ \E id \in TaskIds : rows[id].status \in {"pending", "completed"}

\* C6: after an is_task_running call no row is running without a live worker
\* of its own (an orphan is converted to failed by the call).
C6_NoOrphanSurvives ==
    [][is_task_running
       => \A id \in DOMAIN rows :
             rows'[id].status = "running" => is_alive(threads', id)]_vars

\* C7: the values written to a row's progress never decrease, and completion
\* leaves progress equal to the row's total.
C7_ProgressMonotone ==
    [][\A id \in DOMAIN rows :
          /\ rows'[id].progress >= rows[id].progress
          /\ (rows[id].status # "completed" /\ rows'[id].status = "completed")
             => rows'[id].progress = rows'[id].total]_vars

\* C8: a payload that raises leaves its row failed with str(e) as the error
\* message, whatever exception it raises, and every failed row carries a
\* non-null error message.
C8_FailedHasMessage ==
    [][/\ \A i \in DOMAIN rows, msg \in PayloadErrors :
             worker_fail(i, msg)
             => rows'[i].status = "failed" /\ rows'[i].error_message = msg
       /\ \A i \in DOMAIN rows :
             worker_abort(i)
             => rows'[i].status = "failed" /\ rows'[i].error_message # SqlNull
       /\ \A id \in DOMAIN rows' :
             rows'[id].status = "failed" => rows'[id].error_message # SqlNull]_vars

\* One row failed by its worker and one failed by the recovery sweep.
C8_Witness ==
    \E t, u \in TaskIds :
        /\ rows[t].status = "failed" /\ rows[t].error_message \in PayloadErrors
        /\ rows[u].status = "failed" /\ rows[u].error_message = OrphanMessage

\* C9: a payload that returns leaves its row completed with progress = total
\* and a non-null result; a payload that returns None stores the default message.
C9_CompletedResult ==
    [][\A i \in DOMAIN rows, result \in PayloadResults :
          worker_complete(i, result)
          => /\ rows'[i].status = "completed"
             /\ rows'[i].progress = rows'[i].total
             /\ rows'[i].result_data \notin {SqlNull, "null"}
             /\ result = PyNone => rows'[i].result_data = DefaultResultJson]_vars

\* C10: a recover_system call that follows a recover_system call, with no
\* worker alive, changes neither a row nor the handle.
C10_RecoverIdempotent ==
    [][(recover_system /\ lastOp.name = "recover_system" /\ lastOp.branch # "live")
       => rows' = rows /\ handle' = handle]_vars

\* The second of two recover_system calls has returned, at a later clock
\* reading than the first, which had swept a running row.
C10_Witness ==
    /\ lastOp.name = "recover_system" /\ lastOp.branch = "again" /\ lastOp.swept
    /\ \E id \in TaskIds :
          /\ rows[id].status = "failed" /\ rows[id].error_message = OrphanMessage
          /\ rows[id].completed_at # Some(now)
\* C11: a submission the endpoint rejects is never queued and leaves no
\* trace: the rejecting step changes neither the handle nor any row, and no
\* row belongs to a rejected submission afterwards.
C11_RejectLeavesNoTrace ==
    [][((submit_precheck /\ lastOp'.ret = "409") \/ (submit_execute /\ lastOp'.ret = "500"))
       => /\ rows' = rows
          /\ handle' = handle
          /\ \A t \in DOMAIN calls' : calls'[t] # "rejected"]_vars

\* C17: while no thread is killed, the handle is non-nil if and only if
\* exactly one worker thread is alive, and then it refers to that thread.
C17_HandleIffOneAlive ==
    /\ (handle # None) <=> (Cardinality(AliveWorkers) = 1)
    /\ handle # None => handle[1] \in AliveWorkers

\* C18: the sweep run by is_task_running (alone or inside execute_task) and by
\* recover_system changes a row only when that task's worker is not alive.
C18_RecoveryOnlyDeadWorkers ==
    [][(is_task_running \/ recover_system \/ execute_task_check)
       => \A id \in DOMAIN rows :
             rows'[id] # rows[id] => ~is_alive(threads, id)]_vars

\* C19: a worker's finally step clears the handle exactly when the handle
\* refers to that worker and leaves any other handle as it is, also after a
\* store write raised; the handle is only ever pointed at a thread created in
\* the same step, so it never refers to a worker that has terminated: once a
\* worker has left its finally block the handle is not on it.
C19_FinallyClearsOwnHandle ==
    [][\A i \in DOMAIN threads :
          /\ worker_finally(i)
             => /\ handle' # Some(i)
                /\ handle # Some(i) => handle' = handle
          /\ worker_return(i) => (handle # Some(i) /\ handle' = handle)
          /\ (handle' = Some(i) /\ handle # Some(i))
             => /\ calls[i] = "checked"
                /\ threads[i].pc = "unborn"
                /\ threads'[i].pc \in {"start", "unstarted"}]_vars

\* C19 witness: a worker whose store writes all raised has run finally and is
\* gone, its row still running, and the handle is empty.
C19_Witness ==
    \E i \in TaskIds :
        /\ lastOp.name = "store_fault"
        /\ calls[i] = "accepted"
        /\ threads[i].pc = "unborn"
        /\ rows[i].status = "running"
        /\ handle = None

\* C20: shutdown can always return, it changes no row and ends no thread, and
\* a worker that has reached its finally block while shutdown waits can take
\* the lock and finish without waiting for the join to time out.
C20_ShutdownLetsWorkerFinish ==
    /\ [](lock = "shutdown" => ENABLED shutdown_return)
    /\ [][(shutdown_begin \/ shutdown_return) => (rows' = rows /\ threads' = threads)]_vars
    /\ [](\A i \in TaskIds : threads[i].pc = "finally" => ENABLED worker_finally(i))

\* The largest confidence in a non-empty set of suggestions or results.
MaxConfidence(S) == CHOOSE x \in {s.confidence : s \in S} : \A s \in S : s.confidence <= x

\* The admitted results of a classify_transaction call, as suggestions.
AdmittedSuggestions(classifiers, results) ==
    {MakeSuggestion(classifiers[k], results[k]) :
        k \in {j \in DOMAIN classifiers : Admitted(classifiers[j], results[j])}}

\* C12: classify_transaction never returns two suggestions with the same
\* category, and for each category of an admitted result the surviving
\* suggestion is an admitted one, llm-tagged with the highest llm confidence
\* when an llm classifier proposed the category, else traditional-tagged with
\* the highest traditional confidence.
C12_OneSuggestionPerCategory ==
    cl.op = "classify_transaction" =>
        LET out == cl.out.suggestions
            adm == AdmittedSuggestions(cl.classifiers, cl.results)
        IN /\ \A i, j \in DOMAIN out : i # j => out[i].category # out[j].category
           /\ \A i \in DOMAIN out : out[i] \in adm
           /\ \A a \in adm :
                 \E i \in DOMAIN out :
                    LET same == {s \in adm : s.category = a.category}
                        llm == {s \in same : s.type = "llm"}
                    IN /\ out[i].category = a.category
                       /\ out[i].type = IF llm # {} THEN "llm" ELSE "traditional"
                       /\ out[i].confidence =
                             MaxConfidence(IF llm # {} THEN llm ELSE same)

\* C12 witness: an llm suggestion survives although a traditional classifier
\* proposed the same category with a higher confidence, and a second llm
\* proposal of that category was dropped.
C12_Witness ==
    /\ cl.op = "classify_transaction"
    /\ \E i \in DOMAIN cl.out.suggestions :
          LET s == cl.out.suggestions[i]
              adm == AdmittedSuggestions(cl.classifiers, cl.results)
          IN /\ s.type = "llm"
             /\ \E t \in adm : t.type = "traditional" /\ t.category = s.category
                               /\ t.confidence > s.confidence
             /\ \E u \in adm : u.type = "llm" /\ u.category = s.category
                               /\ u.confidence < s.confidence

\* The record handled by a sweep_record step and its suggestions.
LastRecord(c) == c.trail[Len(c.trail)]
LastSuggestions(c) == classify_transaction(LlmFirstClassifiers, LastRecord(c).results).suggestions

\* What the sweep writes for a record whose top suggestion is top.
ExpectedWrite(tx_id, top) ==
    [transaction_id |-> tx_id, category |-> top.category, confidence |-> top.confidence,
     classification_method |-> ClassifierToMethod(top.classifier)]

\* The review queue grew by one entry for tx_id holding the first three
\* suggestions at most.
QueuedOnce(before, after, tx_id, suggestions) ==
    /\ Len(after) = Len(before) + 1
    /\ SubSeq(after, 1, Len(before)) = before
    /\ after[Len(after)].transaction_id = tx_id
    /\ Len(after[Len(after)].suggestions) <= 3
    /\ Len(after[Len(after)].suggestions) = (IF Len(suggestions) < 3 THEN Len(suggestions) ELSE 3)
    /\ \A k \in DOMAIN after[Len(after)].suggestions :
          after[Len(after)].suggestions[k] = suggestions[k]

\* The spec's example: threshold 0.8 and three records scoring 0.9, 0.55, 0.2.
ExampleBatch(c) ==
    /\ c.op = "sweep"
    /\ c.status = "returned"
    /\ c.confidence_threshold = 80
    /\ Len(c.trail) = 3
    /\ c.trail[1].results = SweepLlm(90)
    /\ c.trail[2].results = SweepLlm(55)
    /\ c.trail[3].results = SweepLlm(20)

\* C13: for each record the sweep fetches, exactly one of three outcomes:
\* top confidence >= threshold: written with the top suggestion's category,
\* confidence and classifier tag, and counted; else top confidence >= 0.4: one
\* review entry with at most 3 suggestions; else (no suggestion included)
\* nothing.  The example batch gives applied_count 1 and a review queue of
\* length 1.
C13_ThreeOutcomes ==
    /\ [][sweep_record
          => LET s == LastSuggestions(cl')
             IN IF s # << >> /\ s[1].confidence >= cl.confidence_threshold
                THEN /\ cl'.written = Append(cl.written, ExpectedWrite(cl'.i, s[1]))
                     /\ cl'.classified_count = cl.classified_count + 1
                     /\ cl'.suggestions_for_review = cl.suggestions_for_review
                ELSE IF s # << >> /\ s[1].confidence >= 40
                THEN /\ QueuedOnce(cl.suggestions_for_review, cl'.suggestions_for_review,
                                   cl'.i, s)
                     /\ cl'.written = cl.written
                     /\ cl'.classified_count = cl.classified_count
                ELSE /\ cl'.written = cl.written
                     /\ cl'.classified_count = cl.classified_count
                     /\ cl'.suggestions_for_review = cl.suggestions_for_review]_vars
    /\ [](ExampleBatch(cl) => cl.classified_count = 1 /\ Len(cl.suggestions_for_review) = 1)

\* C13, amended: the first outcome needs the write to succeed; when
\* reclassify_transaction raises, the record is neither written, counted nor
\* queued.  A record for which no suggestion was computed, because a
\* classifier raised for it or because the loop never reached it, has the
\* third outcome.
C13_ThreeOutcomesWhenWritten ==
    /\ [][sweep_record
          => LET s == LastSuggestions(cl')
             IN IF s # << >> /\ s[1].confidence >= cl.confidence_threshold
                               /\ LastRecord(cl').write_ok
                THEN /\ cl'.written = Append(cl.written, ExpectedWrite(cl'.i, s[1]))
                     /\ cl'.classified_count = cl.classified_count + 1
                     /\ cl'.suggestions_for_review = cl.suggestions_for_review
                ELSE IF s # << >> /\ s[1].confidence < cl.confidence_threshold
                                  /\ s[1].confidence >= 40
                THEN /\ QueuedOnce(cl.suggestions_for_review, cl'.suggestions_for_review,
                                   cl'.i, s)
                     /\ cl'.written = cl.written
                     /\ cl'.classified_count = cl.classified_count
                ELSE /\ cl'.written = cl.written
                     /\ cl'.classified_count = cl.classified_count
                     /\ cl'.suggestions_for_review = cl.suggestions_for_review]_vars
    /\ [](cl.op = "sweep" =>
             /\ \A k \in DOMAIN cl.written : cl.written[k].transaction_id <= cl.i
             /\ \A k \in DOMAIN cl.suggestions_for_review :
                   cl.suggestions_for_review[k].transaction_id <= cl.i)
    /\ []((ExampleBatch(cl) /\ cl.trail[1].write_ok)
          => cl.classified_count = 1 /\ Len(cl.suggestions_for_review) = 1)

\* C13 witness: the example batch has been swept, and its first record written.
C13_Witness ==
    /\ ExampleBatch(cl)
    /\ cl.trail[1].write_ok
    /\ cl.classified_count = 1
    /\ Len(cl.written) = 1
    /\ Len(cl.suggestions_for_review) = 1

\* C14: when a classifier raises for a record, the sweep treats it as
\* (none, 0.0), goes on with the next record and returns normally.
C14_StrategyFailureCaught ==
    [][(sweep_record /\ \E k \in 1 .. 4 : LastRecord(cl').results[k] = RaisedResult)
       => /\ cl'.status = "running"
          /\ cl'.written = cl.written
          /\ cl'.classified_count = cl.classified_count
          /\ cl'.suggestions_for_review = cl.suggestions_for_review]_vars

\* Every ordering of a rule list.
Orderings(rules) ==
    {p \in [DOMAIN rules -> {rules[k] : k \in DOMAIN rules}] :
        {p[k] : k \in DOMAIN p} = {rules[k] : k \in DOMAIN rules}}

\* The rules of a list that pass the amount filter and match.
EligibleMatches(rules, description, amount) ==
    {rules[k] : k \in {j \in DOMAIN rules :
        AmountFilterPasses(rules[j], amount) /\ RuleMatches(rules[j], description)}}

\* C15: RuleBasedClassifier.classify returns the category and confidence of
\* an eligible matching rule of highest confidence, (none, 0.0) when there is
\* none, and the same result for every ordering of the rule list.
C15_RuleOrderIndependent ==
    cl.op = "RuleBasedClassifier.classify" =>
        LET hits == EligibleMatches(cl.rules, cl.description, cl.amount)
        IN /\ hits = {} => cl.out = NoneResult
           /\ hits # {} =>
                 /\ \E r \in hits : cl.out = [category |-> r.category,
                                              confidence |-> r.confidence]
                 /\ \A r \in hits : r.confidence <= cl.out.confidence
           /\ \A p \in Orderings(cl.rules) :
                 RuleBasedClassify(p, cl.description, cl.amount) = cl.out

\* The calls of a single classifier.
ClassifierCalls ==
    {"RuleBasedClassifier.classify", "LearningClassifier.classify",
     "DockerLLMClassifier.classify", "FastLLMClassifier.classify",
     "SuperFastClassifier.classify"}

\* C16: every classifier returns a confidence in [0.0, 1.0]; the
\* LearningClassifier returns a category only when its best score exceeds
\* 0.4 and never a confidence above 0.95, whatever the raw score.
C16_ConfidenceBounds ==
    /\ cl.op \in ClassifierCalls => (0 <= cl.out.confidence /\ cl.out.confidence <= 100)
    /\ cl.op = "LearningClassifier.classify" =>
          /\ cl.out.category # PyNone => cl.best_score > 40
          /\ cl.out.confidence <= 95

\* C16 witness: the LearningClassifier returns 0.95 for a raw score above 1.0.
C16_Witness ==
    /\ cl.op = "LearningClassifier.classify"
    /\ cl.best_score > 100
    /\ cl.out.category # PyNone
    /\ cl.out.confidence = 95

\* C21: under fair scheduling every task execute_task accepted, whose payload
\* returns or raises, eventually has its row completed or failed and the
\* handle no longer on its worker, also when a store write of the worker fails.
C21_AcceptedTaskSettles ==
    \A i \in 1 .. MaxTasks :
        (i \in TaskIds /\ calls[i] = "accepted")
            ~> (/\ i \in TaskIds
                /\ rows[i].status \in {"completed", "failed"}
                /\ handle # Some(i))

\* The confidences of the llm results classify_transaction admitted.
AdmittedLlmConfidences ==
    {cl.results[k].confidence : k \in {j \in DOMAIN cl.results :
        /\ SuggestionType(cl.classifiers[j]) = "llm"
        /\ Admitted(cl.classifiers[j], cl.results[j])}}

\* C22: in the list classify_transaction returns every llm suggestion comes
\* before every traditional one and confidences do not increase within a
\* group; when an llm result was admitted the first element is the llm
\* suggestion of highest confidence, whatever the traditional ones score.
C22_LlmFirstThenByConfidence ==
    (cl.op = "classify_transaction" /\ ~cl.out.raised) =>
        LET s == cl.out.suggestions IN
        /\ \A i, j \in DOMAIN s :
              i < j =>
                /\ s[i].type = "traditional" => s[j].type = "traditional"
                /\ s[i].type = s[j].type => s[i].confidence >= s[j].confidence
        /\ AdmittedLlmConfidences # {} =>
              /\ s # << >>
              /\ s[1].type = "llm"
              /\ \A x \in AdmittedLlmConfidences : s[1].confidence >= x
              /\ s[1].confidence \in AdmittedLlmConfidences

\* The second llm classifier outscores the first, and a traditional suggestion
\* of another category outscores both.
C22_Witness ==
    /\ cl.op = "classify_transaction"
    /\ ~cl.out.raised
    /\ Cardinality(AdmittedLlmConfidences) = 2
    /\ Len(cl.out.suggestions) = 2
    /\ cl.out.suggestions[1].classifier = "DockerLLMClassifier"
    /\ cl.out.suggestions[2].type = "traditional"
    /\ cl.out.suggestions[2].confidence > cl.out.suggestions[1].confidence

\* C23: classify_transaction admits a result with a category exactly when its
\* confidence is at least the gate of its strategy's tag (0.4 llm, 0.6
\* traditional): nothing below its gate is in the output, and the category of
\* a result at or above its gate is in the output.
C23_GateAdmitsAtMinimum ==
    (cl.op = "classify_transaction" /\ ~cl.out.raised) =>
        LET s == cl.out.suggestions
            MeetsGate(k) ==
                /\ CategoryTruthy(cl.results[k].category)
                /\ cl.results[k].confidence >= MinConfidence(cl.classifiers[k])
        IN
        /\ \A i \in DOMAIN s :
              \E k \in DOMAIN cl.results :
                  /\ MeetsGate(k)
                  /\ cl.classifiers[k] = s[i].classifier
                  /\ cl.results[k].category = s[i].category
                  /\ cl.results[k].confidence = s[i].confidence
        /\ \A k \in DOMAIN cl.results :
              MeetsGate(k) => \E i \in DOMAIN s : s[i].category = cl.results[k].category

\* The records of the sweep so far whose write was attempted and raised, and
\* those whose write returned.
FailedWrites == {k \in DOMAIN cl.trail : ~cl.trail[k].write_ok}
ReturnedWrites ==
    {k \in DOMAIN cl.trail :
        /\ cl.trail[k].write_ok
        /\ LET s == classify_transaction(LlmFirstClassifiers, cl.trail[k].results) IN
           ~s.raised /\ Applies(cl, s.suggestions)}

\* C24: a reclassify write that fails for one record is caught for that
\* record: applied_count is not incremented, the loop goes on to the remaining
\* records, and the sweep returns applied_count = number of successful writes.
C24_WriteFailureCaughtPerRecord ==
    /\ [][(cl.op = "sweep" /\ cl'.op = "sweep" /\ cl'.i = cl.i + 1
           /\ ~cl'.trail[cl'.i].write_ok) =>
             /\ cl'.classified_count = cl.classified_count
             /\ cl'.written = cl.written
             /\ cl'.suggestions_for_review = cl.suggestions_for_review
             /\ cl'.status = "running"]_vars
    /\ [](cl.op = "sweep" =>
             /\ cl.classified_count = Cardinality(ReturnedWrites)
             /\ cl.classified_count = Len(cl.written)
             /\ (cl.status = "running" /\ cl.i < cl.n) => ENABLED sweep_record
             /\ (cl.status = "running" /\ cl.i = cl.n) => ENABLED sweep_return)

\* A sweep of three records returned after the write of its first record
\* raised and the write of a later record went through.
C24_Witness ==
    /\ cl.op = "sweep"
    /\ cl.status = "returned"
    /\ cl.n = 3
    /\ 1 \in FailedWrites
    /\ cl.classified_count = 1
    /\ Len(cl.written) = 1
    /\ cl.written[1].transaction_id = 3

\* Records whose pass through the loop has ended (a classifier's exception
\* ends the sweep in the middle of a pass).
Processed(c) == IF c.status = "raised" THEN c.i - 1 ELSE c.i

\* C25: a sweep that is given a progress_callback calls it once after each
\* processed record with (current_index, total, label), current_index rising
\* by one and reaching total after the last record; the callback the task
\* runner supplies is the one called.
C25_ProgressCallbackPerRecord ==
    (cl.op = "sweep" /\ cl.progress_callback) =>
        /\ Len(cl.progress_calls) = Processed(cl)
        /\ \A k \in DOMAIN cl.progress_calls :
              cl.progress_calls[k] = [current |-> k, total |-> cl.n]
        /\ cl.status \in {"returned", "TypeError"} => Len(cl.progress_calls) = cl.n

\* C26: the sweep a submitted auto-classify job runs applies the
\* confidence_threshold given at submission: the value handed to
\* AutoClassificationTask.run decides which records are applied.
C26_SubmittedThresholdApplied ==
    (cl.op = "sweep" /\ cl.caller = "AutoClassificationTask.run") =>
        /\ cl.confidence_threshold = cl.submitted
        /\ \A k \in DOMAIN cl.trail :
              LET s == classify_transaction(LlmFirstClassifiers, cl.trail[k].results) IN
              ~s.raised =>
                  (Applies(cl, s.suggestions)
                      <=> (s.suggestions # << >>
                           /\ s.suggestions[1].confidence >= cl.submitted))

\* What tier 1 and tier 2 propose for the call in cl.
HybridInstant == ClassifyWithPatterns(cl.description, cl.categories)
HybridRule == RuleBasedClassify(cl.rules, cl.description, cl.amount)
InstantQualifies ==
    CategoryTruthy(HybridInstant.category) /\ HybridInstant.confidence >= 85
RuleQualifies ==
    CategoryTruthy(HybridRule.category) /\ HybridRule.confidence >= 80

\* C27: the hybrid classifier takes its tiers in order and stops at the first
\* that qualifies: an instant match of confidence >= 0.85, else a rule result
\* of confidence >= 0.8, is returned without asking the LLM; the LLM is asked
\* only when neither qualified, it is available, and the rule confidence is
\* under 0.7 or the description has more than 4 tokens or an ambiguous term.
C27_TiersShortCircuit ==
    (cl.op = "SuperFastClassifier.classify" /\ cl.step # "counted") =>
        /\ InstantQualifies =>
              (cl.step = "returned" /\ cl.out = HybridInstant /\ cl.added.llm_calls = 0)
        /\ (~InstantQualifies /\ RuleQualifies) =>
              (cl.step = "returned" /\ cl.out = HybridRule /\ cl.added.llm_calls = 0)
        /\ cl.added.llm_calls = 1 =>
              /\ ~InstantQualifies
              /\ ~RuleQualifies
              /\ cl.llm_available
              /\ \/ HybridRule.confidence < 70
                 \/ Len(cl.description) > 4
                 \/ \E term \in AmbiguousTerms :
                       Holds(DescriptionUpper(cl.description), term)

\* The LLM is asked for a short description whose rule result scores 0.75,
\* because of an ambiguous term.
C27_Witness ==
    /\ cl.op = "SuperFastClassifier.classify"
    /\ cl.added.llm_calls = 1
    /\ HybridRule.confidence = 75
    /\ Len(cl.description) <= 4

\* C28: when the hybrid classifier asks the LLM, the LLM's answer is returned
\* only if it names a category and its confidence is strictly above
\* max(rule confidence, 0.6); otherwise the rule result is returned when it
\* has a category, and (None, 0.0) when it has none.
C28_LlmOnlyAboveRuleAndFloor ==
    (/\ cl.op = "SuperFastClassifier.classify"
     /\ cl.step = "returned"
     /\ cl.added.llm_calls = 1) =>
        LET floor == IF HybridRule.confidence > 60 THEN HybridRule.confidence ELSE 60 IN
        cl.out = IF CategoryTruthy(cl.llm_result.category) /\ cl.llm_result.confidence > floor
                 THEN cl.llm_result
                 ELSE IF CategoryTruthy(HybridRule.category) THEN HybridRule
                 ELSE NoneResult

\* The LLM names another category with the rule's own confidence, and the
\* rule result is returned.
C28_Witness ==
    /\ cl.op = "SuperFastClassifier.classify"
    /\ cl.step = "returned"
    /\ cl.added.llm_calls = 1
    /\ CategoryTruthy(cl.llm_result.category)
    /\ cl.llm_result.category # HybridRule.category
    /\ cl.llm_result.confidence = HybridRule.confidence
    /\ cl.out = HybridRule

\* C29: for one classify call a remote LLM classifier sends at most two
\* requests to the inference endpoint (one attempt and at most one retry),
\* whatever timeouts, non-200 replies and errors occur, and after the last
\* failed attempt it returns (None, 0.0) without raising.
C29_AtMostOneRetry ==
    cl.op = "_call_ollama_api" =>
        /\ Len(cl.requests) <= 2
        /\ (cl.status = "returned" /\ cl.requests[Len(cl.requests)] # "200") =>
              cl.out = NoneResult

\* C30: a call of the caching classifier that is answered from the cache
\* returns what the call that filled the cache returned to its caller;
\* repeating a call for one cache key never changes the answer (not from
\* (None, 0.0) to a category), and the cache never holds more than
\* max_cache_size entries.
C30_CacheRepeatsFirstAnswer ==
    /\ [][(/\ cl.op = "FastLLMClassifier.classify"
           /\ cl'.op = "FastLLMClassifier.classify"
           /\ cl'.step = "hit") => cl'.out = cl.filled[1]]_vars
    /\ [](cl.op = "response_cache" => Len(cl.cache) <= MaxCacheSize)

====
